---- MODULE Spec2Model ----
(***************************************************************************)
(* Reader View for Reddit: the comment pipeline of the reader host page    *)
(* (fetch / cache orchestration, parsing, visibility policy, promotion     *)
(* heuristic, render and markdown walks).                                  *)
(*                                                                         *)
(* Data representation                                                     *)
(*   CommentNode  [id, score, replies]: id is a natural (0 stands for the  *)
(*                empty string), score is <<>> when absent and <<s>> when  *)
(*                it is the number s, replies is a sequence of nodes.      *)
(*   wrapper      [kind, data]: one record of a raw listing; data is <<>>  *)
(*                when the wrapper has no payload and <<d>> otherwise,     *)
(*                d = [id, score, replies] with replies the raw children;  *)
(*                kind "null" stands for an entry that is no object.       *)
(***************************************************************************)
EXTENDS Integers, Sequences, FiniteSets, TLC

VARIABLES
    \* ---- reader host page: module-level state and the DOM it drives
    currentComments,
    expandedMoreById,
    expandedLowScoreById,
    collapsedById,
    depthValue,
    autoDepthChecked,
    hideLowChecked,
    listEl,
    clipboard,
    commentsVisible,
    sectionHidden,
    \* ---- reader host page: comment loading
    hasPermalink,
    loadBudget,
    uiReady,
    toggleChecked,
    commentsLoadSeq,
    commentsAbort,
    abortedCtl,
    status,
    footer,
    limitValue,
    sortValue,
    controlsDisabled,
    pendingScrollAnchor,
    keepCommentsListDuringNextLoad,
    loads,
    \* ---- background service worker
    commentsCache,
    now,
    \* ---- inputs and results of the pure functions
    parseIn,
    parseOut,
    selectIn,
    selectOut,
    promoteIn,
    promoteOut,
    walkIn,
    walkOut,
    coerceIn,
    coerceOut,
    \* ---- the last message the background's cache handlers answered at the
    \* current instant, and when each key was last stored
    cacheLog,
    storedAt,
    \* ---- which kind of handler ran last, where a run keeps track of it
    lastStep,
    \* ---- background service worker: the token index kept in
    \* storage.session under 'rvrr_tokens', and the recordSessionToken calls
    tokenIndex,
    tokenCalls,
    \* ---- reader host page: start-up. The parameters of the URL fragment,
    \* what the article element shows, the messages sent to the background,
    \* where init() stands, and whether storage.session holds a payload
    \* under the token of the fragment
    hostHash,
    hostView,
    hostSent,
    hostPc,
    payloadStored,
    \* ---- a pending host page and the background call that opened it: where
    \* openReaderViewForUrl stands, the pending_token key, the messages on
    \* their way to the page, and the locals of waitForPendingPayload
    pend

renderVars == <<currentComments, expandedMoreById, expandedLowScoreById, collapsedById,
                depthValue, autoDepthChecked, hideLowChecked, listEl, clipboard,
                commentsVisible, sectionHidden>>
parseVars == <<parseIn, parseOut>>
selectVars == <<selectIn, selectOut>>
promoteVars == <<promoteIn, promoteOut>>
walkVars == <<walkIn, walkOut>>
coerceVars == <<coerceIn, coerceOut>>
cacheVars == <<cacheLog, storedAt>>
stepVars == <<lastStep>>
tokenVars == <<tokenIndex, tokenCalls>>
hostVars == <<hostHash, hostView, hostSent, hostPc, payloadStored>>
pendVars == <<pend>>
loadVars == <<hasPermalink, loadBudget, uiReady, toggleChecked, commentsLoadSeq, commentsAbort, abortedCtl,
              status, footer, limitValue, sortValue, controlsDisabled, pendingScrollAnchor,
              keepCommentsListDuringNextLoad, loads, commentsCache, now>>
vars == <<renderVars, loadVars, parseVars, selectVars, promoteVars, walkVars, coerceVars,
          cacheVars, stepVars, tokenVars, hostVars, pendVars>>

(***************************************************************************)
(* Bounds of the model.                                                    *)
(***************************************************************************)
MaxEntries == 3
MaxChain == 13
MaxPolls == 2
MaxChildren == 2
MaxPromoteNodes == 5
MaxNodes == 3
MaxDepthSetting == 1
MaxWalkNodes == 3
MaxLoads == 2
MaxTicks == 4
MaxCoerceValue == 600
MaxTokenCalls == 2

(***************************************************************************)
(* Program constants.                                                      *)
(***************************************************************************)
PARSE_DEPTH == 10
LOW_SCORE == -3
PROMOTE_MIN_SCORE == 5
PROMOTE_RATIO_DEN == 4
PROMOTE_TOP == 3
MAX_LIMIT == 500
COMMENTS_CACHE_TTL_MS == 300000
COMMENTS_CACHE_MAX == 10
COMMENTS_CACHE_MAX_BYTES == 8000000
COMMENTS_LIMIT_OPTIONS == <<50, 100, 200, 300, 400, 500>>
TOKEN_TTL_MS == 1800000
TOKEN_MAX_ENTRIES == 15
PENDING_TIMEOUT_MS == 12000

NoId == 0

\* load records are kept for one load more than MaxLoads: a run that sets out
\* from a page with a load already under way follows MaxLoads loads after it
LoadSlots == 1..(MaxLoads + 1)

Max2(a, b) == IF a >= b THEN a ELSE b

\* typeof node.score === 'number' ? node.score : 0
ScoreOf(node) == IF Len(node.score) = 1 THEN node.score[1] ELSE 0

(***************************************************************************)
(* Comment parser.                                                         *)
(***************************************************************************)
\* the entries parsed as comments: kind === 't1'
IsCommentKindAny(child) == child.kind # "null"
IsCommentKind(child) == child.kind = "t1"

\* lets a comment at remainingDepth 0 keep its replies
HasReplyBudgetInclusive(remainingDepth) == remainingDepth >= 0

\* remainingDepth > 0
HasReplyBudget(remainingDepth) == remainingDepth > 0

RECURSIVE parseComment(_, _)
RECURSIVE parseReplies(_, _, _)

\* the loop over data.replies.data.children of parseComment, from entry i on
parseReplies(children, i, remainingDepth) ==
    IF i > Len(children) THEN <<>>
    ELSE LET child == children[i]
             rest == parseReplies(children, i + 1, remainingDepth)
         IN IF ~IsCommentKind(child) THEN rest
            ELSE parseComment(child, remainingDepth - 1) \o rest

\* <<>> stands for null, <<node>> for a parsed node
parseComment(wrapper, remainingDepth) ==
    IF Len(wrapper.data) = 0 THEN <<>>
    ELSE LET data == wrapper.data[1]
             replies == IF HasReplyBudget(remainingDepth)
                        THEN parseReplies(data.replies, 1, remainingDepth)
                        ELSE <<>>
         IN <<[id |-> data.id, score |-> data.score, replies |-> replies]>>

\* counts a comment without its replies
countNodesShallow(node) == 1

RECURSIVE countNodes(_)
countNodes(node) ==
    LET sum[i \in 0..Len(node.replies)] ==
            IF i = 0 THEN 1 ELSE sum[i - 1] + countNodes(node.replies[i])
    IN sum[Len(node.replies)]

\* a placeholder entry of the top-level listing
IsMoreEntry(child) == child.kind = "more"

parseCommentsListing(listing) ==
    IF ~listing.isArray THEN [comments |-> <<>>, loadedCount |-> 0, hasMore |-> FALSE]
    ELSE LET children == listing.children
             step(acc, child) ==
                 IF child.kind = "null" THEN acc
                 ELSE IF IsMoreEntry(child) THEN [acc EXCEPT !.hasMore = TRUE]
                 ELSE IF ~IsCommentKind(child) THEN acc
                 ELSE LET node == parseComment(child, PARSE_DEPTH)
                      IN IF Len(node) = 0 THEN acc
                         ELSE [acc EXCEPT !.loadedCount = @ + countNodes(node[1]),
                                          !.comments = @ \o node]
             loop[i \in 0..Len(children)] ==
                 IF i = 0 THEN [comments |-> <<>>, loadedCount |-> 0, hasMore |-> FALSE]
                 ELSE step(loop[i - 1], children[i])
         IN loop[Len(children)]

(***************************************************************************)
(* Raw listings drawn as inputs: n entries, entry k of shape shape[k],     *)
(* nested under entry par[k] (0: the top-level listing).                   *)
(***************************************************************************)
WrapperShapes == {"t1", "t1nodata", "more", "t3", "null"}

RECURSIVE WrapperOf(_, _, _, _)
RawChildren(p, n, par, shape) ==
    LET f[k \in 0..n] ==
            IF k = 0 THEN <<>>
            ELSE IF par[k] = p THEN Append(f[k - 1], WrapperOf(k, n, par, shape))
            ELSE f[k - 1]
    IN f[n]

WrapperOf(k, n, par, shape) ==
    CASE shape[k] = "t1" ->
            [kind |-> "t1",
             data |-> <<[id |-> k, score |-> <<1>>, replies |-> RawChildren(k, n, par, shape)]>>]
      [] shape[k] = "t1nodata" -> [kind |-> "t1", data |-> <<>>]
      [] shape[k] = "null" -> [kind |-> "null", data |-> <<>>]
      [] OTHER -> [kind |-> shape[k],
                   data |-> <<[id |-> k, score |-> <<>>, replies |-> <<>>]>>]

ParentsFor(n, shape) ==
    { p \in [1..n -> 0..n] :
        \A k \in 1..n : p[k] < k /\ (p[k] # 0 => shape[p[k]] = "t1") }

RawListings ==
    UNION { UNION { { RawChildren(0, n, par, shape) : par \in ParentsFor(n, shape) } :
                    shape \in [1..n -> WrapperShapes] } :
            n \in 0..MaxEntries }

(***************************************************************************)
(* Visibility policy.                                                      *)
(***************************************************************************)
IsLowScoreStrict(hideLow, score, showLow) == hideLow /\ score < LOW_SCORE /\ ~showLow
\* const isLow = hideLow && score <= -3 && !showLow
IsLowScore(hideLow, score, showLow) == hideLow /\ score <= LOW_SCORE /\ ~showLow

\* const withinDepth = depth <= depthLimit
WithinDepthExact(depth, depthLimit) == depth = depthLimit

WithinDepth(depth, depthLimit) == depth <= depthLimit

\* const visibleByDepth = unlimitedDepth || withinDepth || promoted
VisibleByDepth(unlimitedDepth, withinDepth, promoted) ==
    unlimitedDepth \/ withinDepth \/ promoted

\* puts the child in front of the ones taken before
PushVisibleFront(visible, child) == <<child>> \o visible

\* visible.push(child)
PushVisible(visible, child) == Append(visible, child)

\* expandedLow is the value of expandedLowScoreById the call reads
selectVisibleChildren(parent, children, depth, depthLimit, hideLow, promotedPathIds, unlimitedDepth, expandedLow) ==
    LET showLow == parent.id \in expandedLow
        step(acc, child) ==
            LET score == ScoreOf(child)
                isLow == IsLowScore(hideLow, score, showLow)
                withinDepth == WithinDepth(depth, depthLimit)
                promoted == child.id \in promotedPathIds
                visibleByDepth == VisibleByDepth(unlimitedDepth, withinDepth, promoted)
            IN IF isLow THEN [acc EXCEPT !.hiddenLowScoreCount = @ + 1]
               ELSE IF ~visibleByDepth THEN [acc EXCEPT !.hiddenDepthCount = @ + 1]
               ELSE [acc EXCEPT !.visible = PushVisible(@, child)]
        loop[i \in 0..Len(children)] ==
            IF i = 0 THEN [visible |-> <<>>, hiddenDepthCount |-> 0, hiddenLowScoreCount |-> 0]
            ELSE step(loop[i - 1], children[i])
    IN loop[Len(children)]

(***************************************************************************)
(* Promotion heuristic.                                                    *)
(***************************************************************************)
\* the traversal of computePromotedPathIds: one record per visited node, in
\* visiting order; parentId NoId stands for null
RECURSIVE visit(_, _, _)
visit(node, parentId, depth) ==
    LET kids[i \in 0..Len(node.replies)] ==
            IF i = 0 THEN <<>>
            ELSE kids[i - 1] \o visit(node.replies[i], node.id, depth + 1)
    IN <<[id |-> node.id, parent |-> parentId, score |-> ScoreOf(node), depth |-> depth]>>
       \o kids[Len(node.replies)]

\* Map.get(id): the value of the last set() for this key
MapGet(recs, id) ==
    LET hits == { i \in 1..Len(recs) : recs[i].id = id }
    IN recs[CHOOSE i \in hits : \A j \in hits : j <= i]

\* the floor of 5 alone, without the quarter of the best score
MeetsFloorOnly(score, maxCandidateScore) == score >= PROMOTE_MIN_SCORE

\* c.score >= Math.max(5, maxCandidateScore * 0.25)
MeetsThreshold(score, maxCandidateScore) ==
    score >= PROMOTE_MIN_SCORE /\ PROMOTE_RATIO_DEN * score >= maxCandidateScore

\* Array.prototype.sort((a, b) => b.score - a.score), which is stable
InsertDesc(sorted, x) ==
    LET k == Cardinality({ i \in 1..Len(sorted) : sorted[i].score >= x.score })
    IN SubSeq(sorted, 1, k) \o <<x>> \o SubSeq(sorted, k + 1, Len(sorted))

SortByScoreDesc(seq) ==
    LET f[i \in 0..Len(seq)] == IF i = 0 THEN <<>> ELSE InsertDesc(f[i - 1], seq[i])
    IN f[Len(seq)]

TakeTopWide(sorted) == SubSeq(sorted, 1, IF Len(sorted) < PROMOTE_TOP + 1 THEN Len(sorted) ELSE PROMOTE_TOP + 1)
\* .slice(0, 3)
TakeTop(sorted) == SubSeq(sorted, 1, IF Len(sorted) < PROMOTE_TOP THEN Len(sorted) ELSE PROMOTE_TOP)

\* while (cur) { promoted.add(cur); cur = parentById.get(cur) ?? null; }
RECURSIVE PathToRoot(_, _)
PathToRoot(cur, recs) ==
    IF cur = NoId THEN {}
    ELSE {cur} \cup PathToRoot(MapGet(recs, cur).parent, recs)

\* takes only the nodes two levels or more beyond the limit
BeyondLimitByTwo(depth, depthLimit) == depth > depthLimit + 1

\* if (depth <= depthLimit) continue;
BeyondLimit(depth, depthLimit) == ~(depth <= depthLimit)

\* the candidates loop: every visited node deeper than depthLimit
Candidates(recs, depthLimit) ==
    SelectSeq([i \in 1..Len(recs) |-> [id |-> recs[i].id, score |-> MapGet(recs, recs[i].id).score,
                                      depth |-> MapGet(recs, recs[i].id).depth]],
              LAMBDA c : BeyondLimit(c.depth, depthLimit))

MaxCandidateScore(candidates) ==
    LET f[i \in 0..Len(candidates)] ==
            IF i = 0 THEN 0 ELSE Max2(f[i - 1], candidates[i].score)
    IN f[Len(candidates)]

\* the nodes whose paths are promoted (the local `best`)
PromotedBest(root, depthLimit) ==
    LET recs == visit(root, NoId, 0)
        candidates == Candidates(recs, depthLimit)
        maxCandidateScore == MaxCandidateScore(candidates)
    IN IF maxCandidateScore < PROMOTE_MIN_SCORE THEN <<>>
       ELSE TakeTop(SortByScoreDesc(
                SelectSeq(candidates, LAMBDA c : MeetsThreshold(c.score, maxCandidateScore))))

computePromotedPathIds(root, depthLimit, topScore) ==
    LET recs == visit(root, NoId, 0)
        best == PromotedBest(root, depthLimit)
    IN UNION { PathToRoot(best[i].id, recs) : i \in 1..Len(best) }

(***************************************************************************)
(* Render engine: the DOM walk and the markdown walk.                      *)
(***************************************************************************)
MAX_DEPTH_VALUE == 5

\* Math.min(5, Math.max(0, parsed)) of the depth control's value
getCommentsDepth(value) == IF value > MAX_DEPTH_VALUE THEN MAX_DEPTH_VALUE
                           ELSE IF value < 0 THEN 0 ELSE value

\* the three per-node sets as one value: what a walk reads of them
UiSets(more, low, collapsed) == [more |-> more, low |-> low, collapsed |-> collapsed]

\* hands the caller's own unlimitedDepth on to the replies
PassOuterUnlimited(unlimitedDepth, thisSubtreeUnlimited) == unlimitedDepth

\* the unlimitedDepth argument of the recursive call: thisSubtreeUnlimited
PassUnlimited(unlimitedDepth, thisSubtreeUnlimited) == thisSubtreeUnlimited

\* One record per .comment wrapper, in document order: its data-comment-id,
\* whether it shows the collapsed snippet, and the counts on its "Show n more
\* replies" / "Show n low-score replies" buttons (0: no such button).
RECURSIVE renderCommentTree(_, _, _, _, _)
renderCommentTree(comment, settings, currentDepth, unlimitedDepth, sets) ==
    LET isCollapsed == comment.id \in sets.collapsed
        wrapper(more, low) == [id |-> comment.id, collapsed |-> isCollapsed,
                               depth |-> currentDepth, showMore |-> more, showLow |-> low]
    IN IF isCollapsed THEN <<wrapper(0, 0)>>
       ELSE IF Len(comment.replies) = 0 THEN <<wrapper(0, 0)>>
       ELSE LET thisSubtreeUnlimited == unlimitedDepth \/ comment.id \in sets.more
                sel == selectVisibleChildren(comment, comment.replies, currentDepth + 1,
                                             settings.depthLimit, settings.hideLow,
                                             settings.promotedPathIds, thisSubtreeUnlimited,
                                             sets.low)
                kids[i \in 0..Len(sel.visible)] ==
                    IF i = 0 THEN <<>>
                    ELSE kids[i - 1] \o renderCommentTree(sel.visible[i], settings,
                                                          currentDepth + 1,
                                                          PassUnlimited(unlimitedDepth,
                                                                        thisSubtreeUnlimited),
                                                          sets)
            IN <<wrapper(IF ~thisSubtreeUnlimited /\ sel.hiddenDepthCount > 0
                         THEN sel.hiddenDepthCount ELSE 0,
                         sel.hiddenLowScoreCount)>>
               \o kids[Len(sel.visible)]

\* the settings object built for one top-level comment
SettingsFor(top, depth, autoDepth, hideLow) ==
    [depthLimit |-> depth, autoDepth |-> autoDepth, hideLow |-> hideLow,
     promotedPathIds |-> IF autoDepth THEN computePromotedPathIds(top, depth, ScoreOf(top)) ELSE {}]

\* the children rerenderComments() gives #comments-list, for the held forest,
\* the three controls' values and the per-node sets at the time of the call
rerenderComments(comments, depthVal, autoDepth, hideLow, sets) ==
    LET depth == getCommentsDepth(depthVal)
        f[i \in 0..Len(comments)] ==
            IF i = 0 THEN <<>>
            ELSE f[i - 1] \o renderCommentTree(comments[i],
                                SettingsFor(comments[i], depth, autoDepth, hideLow),
                                0, FALSE, sets)
    IN f[Len(comments)]

\* what rerenderComments() would build in the current state
RenderedList ==
    rerenderComments(currentComments, depthValue, autoDepthChecked, hideLowChecked,
                     UiSets(expandedMoreById, expandedLowScoreById, collapsedById))

\* One record per "- **u/author**" header line pushed to out, in order.
RECURSIVE appendVisibleCommentMarkdown(_, _, _, _, _)
appendVisibleCommentMarkdown(comment, depth, settings, unlimitedDepth, sets) ==
    IF comment.id \in sets.collapsed THEN <<>>
    ELSE IF Len(comment.replies) = 0 THEN <<[id |-> comment.id, depth |-> depth]>>
    ELSE LET thisSubtreeUnlimited == unlimitedDepth \/ comment.id \in sets.more
             sel == selectVisibleChildren(comment, comment.replies, depth + 1,
                                          settings.depthLimit, settings.hideLow,
                                          settings.promotedPathIds, thisSubtreeUnlimited,
                                          sets.low)
             kids[i \in 0..Len(sel.visible)] ==
                 IF i = 0 THEN <<>>
                 ELSE kids[i - 1] \o appendVisibleCommentMarkdown(sel.visible[i], depth + 1,
                                                                  settings, thisSubtreeUnlimited,
                                                                  sets)
         IN <<[id |-> comment.id, depth |-> depth]>> \o kids[Len(sel.visible)]

\* the comment headers of the "post + comments" markdown
buildPostAndCommentsMarkdown(comments, depthVal, autoDepth, hideLow, sets) ==
    LET depth == getCommentsDepth(depthVal)
        f[i \in 0..Len(comments)] ==
            IF i = 0 THEN <<>>
            ELSE f[i - 1] \o appendVisibleCommentMarkdown(comments[i], 0,
                                SettingsFor(comments[i], depth, autoDepth, hideLow),
                                FALSE, sets)
    IN f[Len(comments)]

\* what the "copy post + comments" button would build in the current state
MarkdownNow ==
    buildPostAndCommentsMarkdown(currentComments, depthValue, autoDepthChecked, hideLowChecked,
                                 UiSets(expandedMoreById, expandedLowScoreById, collapsedById))

IdsIn(seq) == { seq[i].id : i \in 1..Len(seq) }

(***************************************************************************)
(* Comment forests drawn as inputs: n nodes, node k with score sc[k],      *)
(* a reply of node par[k] (0: a top-level comment); ids are unique.        *)
(***************************************************************************)
RECURSIVE NodeOf(_, _, _, _)
ChildNodes(p, n, par, sc) ==
    LET f[k \in 0..n] ==
            IF k = 0 THEN <<>>
            ELSE IF par[k] = p THEN Append(f[k - 1], NodeOf(k, n, par, sc))
            ELSE f[k - 1]
    IN f[n]

NodeOf(k, n, par, sc) == [id |-> k, score |-> sc[k], replies |-> ChildNodes(k, n, par, sc)]

\* nodes are numbered level by level, which reaches every ordered shape once
ForestParents(n) ==
    { p \in [1..n -> 0..n] : /\ \A k \in 1..n : p[k] < k
                             /\ \A k \in 2..n : p[k - 1] <= p[k] }
TreeParents(n) == { p \in ForestParents(n) : \A k \in 2..n : p[k] # 0 }

\* a top-level comment has score topScore (a top-level comment is never a child
\* given to selectVisibleChildren nor a promotion candidate), a reply one of
\* scores
ScoresFor(n, par, topScore, scores) ==
    { sc \in [1..n -> scores \cup {topScore}] :
        \A k \in 1..n : IF par[k] = 0 THEN sc[k] = topScore ELSE sc[k] \in scores }

Forests(maxN, topScore, scores) ==
    UNION { UNION { { ChildNodes(0, n, par, sc) : sc \in ScoresFor(n, par, topScore, scores) } :
                    par \in ForestParents(n) } :
            n \in 0..maxN }

\* trees with one top-level comment
Trees(maxN, topScore, scores) ==
    UNION { UNION { { NodeOf(1, n, par, sc) : sc \in ScoresFor(n, par, topScore, scores) } :
                    par \in TreeParents(n) } :
            n \in 1..maxN }

RenderScores == { <<>>, <<-3>>, <<5>> }
WalkScores == { <<>>, <<-3>> }
SelectScores == { <<>>, <<-3>>, <<-2>>, <<5>> }
PromoteScores == { <<>>, <<5>>, <<24>> }

(***************************************************************************)
(* Comment loading: limit options, cache key, footer.                      *)
(***************************************************************************)
Abs(x) == IF x < 0 THEN -x ELSE x
Min2(a, b) == IF a <= b THEN a ELSE b

\* an option as near as the best one so far replaces it
CloserOrEqual(dist, bestDist) == dist <= bestDist

\* if (dist < bestDist): only a strictly nearer option replaces the best one
CloserThan(dist, bestDist) == dist < bestDist

\* coerceCommentsLimit: value is <<>> for a value that is no finite number and
\* <<n>> for the number n; the nearest option wins, the first one on a tie
coerceCommentsLimit(value) ==
    IF Len(value) = 0 THEN 100
    ELSE LET best[i \in 0..Len(COMMENTS_LIMIT_OPTIONS)] ==
                 IF i = 0 THEN COMMENTS_LIMIT_OPTIONS[1]
                 ELSE IF CloserThan(Abs(value[1] - COMMENTS_LIMIT_OPTIONS[i]),
                                    Abs(value[1] - best[i - 1]))
                      THEN COMMENTS_LIMIT_OPTIONS[i]
                      ELSE best[i - 1]
         IN best[Len(COMMENTS_LIMIT_OPTIONS)]

\* getCommentsLimit: the limit select's value, parsed and coerced
getCommentsLimit(value) == coerceCommentsLimit(<<value>>)

\* COMMENTS_LIMIT_OPTIONS.indexOf(currentLimit), 0-based, -1 when absent
IndexOfLimit(currentLimit) ==
    IF \E i \in 1..Len(COMMENTS_LIMIT_OPTIONS) : COMMENTS_LIMIT_OPTIONS[i] = currentLimit
    THEN (CHOOSE i \in 1..Len(COMMENTS_LIMIT_OPTIONS) : COMMENTS_LIMIT_OPTIONS[i] = currentLimit) - 1
    ELSE -1

\* the option two places on
NextLimitSkip(currentLimit) ==
    COMMENTS_LIMIT_OPTIONS[Min2(Len(COMMENTS_LIMIT_OPTIONS) - 1,
                                Max2(0, IndexOfLimit(currentLimit)) + 2) + 1]

\* the option the "load more" button moves the limit select to
NextLimit(currentLimit) ==
    COMMENTS_LIMIT_OPTIONS[Min2(Len(COMMENTS_LIMIT_OPTIONS) - 1,
                                Max2(0, IndexOfLimit(currentLimit)) + 1) + 1]

\* normalizeCommentsCacheKey for the one post of the page: the path is fixed,
\* the key varies with sort and limit
normalizeCommentsCacheKey(sort, limit) == <<sort, limit>>

\* #comments-footer before its button exists
NoFooterButton == [isHidden |-> FALSE, disabled |-> TRUE, text |-> "", onclick |-> "none"]

\* updateCommentsFooter: the footer it leaves
updateCommentsFooter(hasMore, limit, loading) ==
    LET shouldShow == hasMore /\ limit < MAX_LIMIT
        showRedditLink == ~loading /\ hasMore /\ limit >= MAX_LIMIT
    IN [isHidden |-> ~shouldShow /\ ~loading /\ ~showRedditLink,
        disabled |-> IF showRedditLink THEN FALSE ELSE loading \/ (~shouldShow /\ ~showRedditLink),
        text |-> IF loading THEN "Loading more" ELSE IF showRedditLink
                 THEN "See more comments on Reddit" ELSE "Load more comments",
        onclick |-> IF showRedditLink THEN "openReddit"
                    ELSE IF shouldShow /\ ~loading THEN "loadMore" ELSE "none"]

\* captureCommentsScrollAnchor: the first rendered comment still on screen,
\* which the scroll position decides; <<>> when there is none
ScrollAnchors(list) == { <<>> } \cup { <<list[i].id>> : i \in { j \in 1..Len(list) : list[j].id # NoId } }

(***************************************************************************)
(* Background service worker: the comments cache, a Map in insertion       *)
(* order of entries [key, value, expiresAt].                               *)
(***************************************************************************)
CacheIndex(cache, key) ==
    IF \E i \in 1..Len(cache) : cache[i].key = key
    THEN CHOOSE i \in 1..Len(cache) : cache[i].key = key
    ELSE 0

RemoveAt(seq, i) == SubSeq(seq, 1, i - 1) \o SubSeq(seq, i + 1, Len(seq))

\* an entry that is never taken for expired
IsExpiredNever(t, expiresAt) == FALSE

\* an entry is expired when Date.now() > entry.expiresAt
IsExpired(t, expiresAt) == t > expiresAt

\* getCachedComments: the cache it leaves and the value it returns (<<>>: null)
getCachedComments(cache, key, t) ==
    LET i == CacheIndex(cache, key)
    IN IF i = 0 THEN [cache |-> cache, value |-> <<>>]
       ELSE IF IsExpired(t, cache[i].expiresAt)
            THEN [cache |-> RemoveAt(cache, i), value |-> <<>>]
            ELSE [cache |-> Append(RemoveAt(cache, i), cache[i]), value |-> <<cache[i].value>>]

\* a cache that is never cut back
EvictNone(cache) == cache

\* while (commentsCache.size > COMMENTS_CACHE_MAX) delete the oldest key
RECURSIVE EvictOldest(_)
EvictOldest(cache) ==
    IF Len(cache) > COMMENTS_CACHE_MAX THEN EvictOldest(Tail(cache)) ELSE cache

\* Message values. A value drawn for the cache alone is a record with the
\* fields truthy (what Boolean(value) gives) and json (<<n>>: JSON.stringify
\* gives n characters; <<>>: it gives undefined or throws). The value that
\* loadComments() sends is an object of a few comments: truthy, and far
\* shorter than COMMENTS_CACHE_MAX_BYTES (its length is not computed).
Truthy(value) == IF "truthy" \in DOMAIN value THEN value.truthy ELSE TRUE
JsonLength(value) == IF "json" \in DOMAIN value THEN value.json ELSE <<2>>

\* the reply of setCachedComments; bytes is <<>> when no length was taken
SetReplyOf(ok, reason, bytes) == [ok |-> ok, reason |-> reason, bytes |-> bytes]

\* a rejection that drops the entry held under the key
CacheAfterRejectDrops(cache, key) ==
    IF CacheIndex(cache, key) # 0 THEN RemoveAt(cache, CacheIndex(cache, key)) ELSE cache

\* a SET turned away returns before commentsCache is touched
CacheAfterReject(cache, key) == cache

\* setCachedComments: the cache it leaves and what it returns. Map.set
\* keeps the place of a key already held
setCachedComments(cache, key, value, t) ==
    LET bytes == JsonLength(value)
        i == CacheIndex(cache, key)
        entry == [key |-> key, value |-> value, expiresAt |-> t + COMMENTS_CACHE_TTL_MS]
    IN IF Len(bytes) = 0
       THEN [cache |-> CacheAfterReject(cache, key),
             reply |-> SetReplyOf(FALSE, "not_serializable", <<>>)]
       ELSE IF bytes[1] > COMMENTS_CACHE_MAX_BYTES
       THEN [cache |-> CacheAfterReject(cache, key),
             reply |-> SetReplyOf(FALSE, "too_large", bytes)]
       ELSE [cache |-> EvictOldest(IF i = 0 THEN Append(cache, entry)
                                   ELSE [cache EXCEPT ![i] = entry]),
             reply |-> SetReplyOf(TRUE, "", bytes)]

\* the value loadComments() sends with COMMENTS_CACHE_SET
CacheValue(parsed) ==
    [comments |-> parsed.comments, loadedCount |-> parsed.loadedCount, hasMore |-> parsed.hasMore]

\* the COMMENTS_CACHE_GET reply: { hit: Boolean(value), value }
CacheGetReply(value) == [hit |-> Len(value) = 1 /\ Truthy(value[1]), value |-> value]

\* LongKey stands for a key the handlers turn away: not a string, or a
\* string of more than 400 characters
LongKey == <<"long", 0>>
IsCacheKey(key) == key # LongKey

\* the COMMENTS_CACHE_GET handler: the cache it leaves and its reply
CommentsCacheGet(cache, key, t) ==
    IF ~IsCacheKey(key) THEN [cache |-> cache, reply |-> [hit |-> FALSE, value |-> <<>>]]
    ELSE LET r == getCachedComments(cache, key, t)
         IN [cache |-> r.cache, reply |-> CacheGetReply(r.value)]

\* the COMMENTS_CACHE_SET handler: the cache it leaves and its reply
CommentsCacheSet(cache, key, value, t) ==
    IF ~IsCacheKey(key) THEN [cache |-> CacheAfterReject(cache, key),
                              reply |-> SetReplyOf(FALSE, "bad_key", <<>>)]
    ELSE setCachedComments(cache, key, value, t)

(***************************************************************************)
(* One record per call of loadComments() that passed the permalink check:  *)
(* where the call is suspended and what it captured. viaLoadMore, gotHit,  *)
(* outcome, produced and late record its history: started by the "load     *)
(* more" button, answered a hit by the cache, how it returned, the tree it *)
(* produced, returned after the latest load had returned. The record of    *)
(* the latest load keeps, once it has returned with a tree, the limit it   *)
(* asked for and, in more, whether the server reported more comments.      *)
(***************************************************************************)
IdleLoadRec ==
    [pc |-> "idle", limit |-> 0, sort |-> "", viaLoadMore |-> FALSE, reply |-> <<>>, signal |-> 0,
     parsed |-> <<>>, gotHit |-> FALSE, outcome |-> "none", produced |-> <<>>, late |-> FALSE,
     more |-> FALSE, setRes |-> "none"]

\* what the reddit server may answer: raw listings
ServerComment(id, score, replies) ==
    [kind |-> "t1", data |-> <<[id |-> id, score |-> score, replies |-> replies]>>]
ServerMore == [kind |-> "more", data |-> <<[id |-> NoId, score |-> <<>>, replies |-> <<>>]>>]
ServerListings ==
    { <<ServerMore>>,
      <<ServerComment(1, <<5>>, <<ServerComment(2, <<-3>>, <<>>)>>), ServerMore>>,
      <<ServerComment(3, <<>>, <<>>)>> }

\* the cache when the page opens: empty, or holding what an earlier reader
\* page of the same post stored for the default sort and limit
InitialCaches ==
    { <<>> } \cup
    { setCachedComments(<<>>, normalizeCommentsCacheKey("top", 400),
                        CacheValue(parseCommentsListing([isArray |-> TRUE, children |-> listing])),
                        0).cache :
        listing \in { <<ServerComment(3, <<>>, <<>>)>> } }

LimitChoices == { 400, 500 }
\* what the limit select holds when the page opens
InitialLimits == { 300, 400 }
SortChoices == { "top", "new" }

(***************************************************************************)
(* Idle values of each part of the state.                                  *)
(***************************************************************************)
IdleRender ==
    /\ currentComments = <<>>
    /\ expandedMoreById = {}
    /\ expandedLowScoreById = {}
    /\ collapsedById = {}
    /\ depthValue = 1
    /\ autoDepthChecked = TRUE
    /\ hideLowChecked = TRUE
    /\ listEl = <<>>
    /\ clipboard = <<>>
    /\ commentsVisible = TRUE
    /\ sectionHidden = FALSE
IdleParse == parseIn = <<>> /\ parseOut = <<>>
IdleSelect == selectIn = <<>> /\ selectOut = <<>>
IdlePromote == promoteIn = <<>> /\ promoteOut = <<>>
IdleWalk == walkIn = <<>> /\ walkOut = <<>>
IdleCoerce == coerceIn = <<>> /\ coerceOut = <<>>
IdleCache == cacheLog = <<>> /\ storedAt = <<>>
IdleStep == lastStep = "none"
IdleToken == tokenIndex = <<>> /\ tokenCalls = <<>>
IdleHost ==
    /\ hostHash = <<>>
    /\ hostView = "blank"
    /\ hostSent = {}
    /\ hostPc = "none"
    /\ payloadStored = FALSE
\* no pending host page: the background call has not begun and the locals of
\* waitForPendingPayload do not exist
IdlePendRec ==
    [bgPc |-> "idle", pendingKey |-> FALSE, msgs |-> {}, listening |-> FALSE, resolved |-> FALSE,
     timer |-> "none", interval |-> FALSE, polls |-> [get |-> 0, token |-> 0], elapsed |-> 0,
     inits |-> 0,
     errors |-> 0]
IdlePend == pend = IdlePendRec
\* a page whose comments are shown and whose loads have all finished
IdleLoad ==
    /\ hasPermalink = TRUE
    /\ loadBudget = MaxLoads
    /\ uiReady = TRUE
    /\ toggleChecked = TRUE
    /\ commentsLoadSeq = 0
    /\ commentsAbort = 0
    /\ abortedCtl = {}
    /\ status = "success"
    /\ footer = updateCommentsFooter(FALSE, 100, FALSE)
    /\ limitValue = 100
    /\ sortValue = "top"
    /\ controlsDisabled = FALSE
    /\ pendingScrollAnchor = <<>>
    /\ keepCommentsListDuringNextLoad = FALSE
    /\ loads = [l \in LoadSlots |-> IdleLoadRec]
    /\ commentsCache = <<>>
    /\ now = 0

(***************************************************************************)
(* SpecParse: parseCommentsListing applied to a raw listing.               *)
(***************************************************************************)
InitParse ==
    /\ parseIn \in { <<[isArray |-> TRUE, children |-> c]>> : c \in RawListings }
                   \cup { <<[isArray |-> FALSE, children |-> <<>>]>> }
    /\ parseOut = <<>>
    /\ IdleRender /\ IdleSelect /\ IdlePromote /\ IdleWalk /\ IdleLoad
    /\ IdleCoerce /\ IdleCache /\ IdleStep /\ IdleToken /\ IdleHost /\ IdlePend

ParseListing ==
    /\ parseOut = <<>>
    /\ parseOut' = <<parseCommentsListing(parseIn[1])>>
    /\ UNCHANGED <<parseIn, renderVars, loadVars, selectVars, promoteVars, walkVars,
                   coerceVars, cacheVars, stepVars, tokenVars, hostVars, pendVars>>

NextParse == ParseListing
SpecParse == InitParse /\ [][NextParse]_vars

(***************************************************************************)
(* SpecDeep: parseCommentsListing applied to one thread of n comments,     *)
(* each a reply of the one before, with or without one more entry beside   *)
(* the comment of level side.at: a leaf comment or a placeholder.          *)
(***************************************************************************)
ChainSides(n) ==
    { [at |-> 0, kind |-> "none"] }
    \cup { [at |-> k, kind |-> kd] : k \in 1..(n - 1), kd \in { "t1", "more" } }

RECURSIVE RawChain(_, _, _)
RawChain(k, n, side) ==
    LET beside == IF side.at # k THEN <<>>
                  ELSE IF side.kind = "more" THEN <<ServerMore>>
                  ELSE <<ServerComment(n + 1, <<>>, <<>>)>>
        below == IF k < n - 1 THEN RawChain(k + 1, n, side) \o beside ELSE beside
    IN <<ServerComment(k + 1, <<>>, IF k < n - 1 THEN below ELSE <<>>)>>

InitDeep ==
    /\ parseIn \in { <<[isArray |-> TRUE, children |-> RawChain(0, n, side)]>> :
                       n \in 1..MaxChain, side \in ChainSides(MaxChain) }
    /\ parseOut = <<>>
    /\ IdleRender /\ IdleSelect /\ IdlePromote /\ IdleWalk /\ IdleLoad
    /\ IdleCoerce /\ IdleCache /\ IdleStep /\ IdleToken /\ IdleHost /\ IdlePend

SpecDeep == InitDeep /\ [][NextParse]_vars

(***************************************************************************)
(* SpecSelect: selectVisibleChildren applied to one parent's replies.      *)
(***************************************************************************)
SelectParents ==
    UNION { { [id |-> 1, score |-> <<1>>,
               replies |-> [k \in 1..n |-> [id |-> k + 1, score |-> sc[k], replies |-> <<>>]]] :
                sc \in [1..n -> SelectScores] } :
            n \in 0..MaxChildren }

InitSelect ==
    /\ selectIn \in { <<[parent |-> p, depth |-> d, depthLimit |-> dl, hideLow |-> h,
                        promotedPathIds |-> pr, unlimitedDepth |-> u]>> :
                        p \in SelectParents, d \in 1..2, dl \in 0..MaxDepthSetting,
                        h \in BOOLEAN, pr \in SUBSET (2..(MaxChildren + 1)), u \in BOOLEAN }
    /\ selectOut = <<>>
    /\ currentComments = <<>>
    /\ expandedMoreById = {}
    /\ expandedLowScoreById \in { {}, {1} }
    /\ collapsedById = {}
    /\ depthValue = 1
    /\ autoDepthChecked = TRUE
    /\ hideLowChecked = TRUE
    /\ listEl = <<>>
    /\ clipboard = <<>>
    /\ commentsVisible = TRUE
    /\ sectionHidden = FALSE
    /\ IdleParse /\ IdlePromote /\ IdleWalk /\ IdleLoad
    /\ IdleCoerce /\ IdleCache /\ IdleStep /\ IdleToken /\ IdleHost /\ IdlePend

SelectChildren ==
    /\ selectOut = <<>>
    /\ LET in == selectIn[1]
       IN selectOut' = <<selectVisibleChildren(in.parent, in.parent.replies, in.depth, in.depthLimit,
                                               in.hideLow, in.promotedPathIds, in.unlimitedDepth,
                                               expandedLowScoreById)>>
    /\ UNCHANGED <<selectIn, renderVars, loadVars, parseVars, promoteVars, walkVars,
                   coerceVars, cacheVars, stepVars, tokenVars, hostVars, pendVars>>

NextSelect == SelectChildren
SpecSelect == InitSelect /\ [][NextSelect]_vars

(***************************************************************************)
(* SpecPromote: computePromotedPathIds applied to one top-level comment.   *)
(***************************************************************************)
InitPromote ==
    /\ promoteIn \in { <<[root |-> r, depthLimit |-> dl]>> :
                         r \in Trees(MaxPromoteNodes, <<1>>, PromoteScores),
                         dl \in 0..MaxDepthSetting }
    /\ promoteOut = <<>>
    /\ IdleRender /\ IdleParse /\ IdleSelect /\ IdleWalk /\ IdleLoad
    /\ IdleCoerce /\ IdleCache /\ IdleStep /\ IdleToken /\ IdleHost /\ IdlePend

ComputePromoted ==
    /\ promoteOut = <<>>
    /\ LET in == promoteIn[1]
       IN promoteOut' = <<computePromotedPathIds(in.root, in.depthLimit, ScoreOf(in.root))>>
    /\ UNCHANGED <<promoteIn, renderVars, loadVars, parseVars, selectVars, walkVars,
                   coerceVars, cacheVars, stepVars, tokenVars, hostVars, pendVars>>

NextPromote == ComputePromoted
SpecPromote == InitPromote /\ [][NextPromote]_vars

(***************************************************************************)
(* SpecWalk: the render walk of one top-level comment under two depth      *)
(* limits, everything else equal.                                          *)
(***************************************************************************)
\* the per-node sets drawn for a walk (comment 1 is the top-level comment,
\* comment 2 its first reply)
WalkMore == SUBSET {1, 2}
WalkLow == SUBSET {1}
WalkCollapsed == { {}, {2} }

InitWalk ==
    /\ walkIn \in { <<[root |-> r, hideLow |-> h, promotedPathIds |-> pr, d1 |-> a, d2 |-> b,
                       sets |-> UiSets(m, l, c)]>> :
                      r \in Trees(MaxWalkNodes, <<1>>, WalkScores), h \in BOOLEAN,
                      pr \in SUBSET (2..MaxWalkNodes),
                      a \in 0..MaxDepthSetting, b \in 1..(MaxDepthSetting + 1),
                      m \in WalkMore, l \in WalkLow, c \in WalkCollapsed }
    /\ walkIn[1].d1 < walkIn[1].d2
    /\ walkOut = <<>>
    /\ IdleRender /\ IdleParse /\ IdleSelect /\ IdlePromote /\ IdleLoad
    /\ IdleCoerce /\ IdleCache /\ IdleStep /\ IdleToken /\ IdleHost /\ IdlePend

WalkOnce(in, depthLimit) ==
    renderCommentTree(in.root,
                      [depthLimit |-> depthLimit, autoDepth |-> TRUE, hideLow |-> in.hideLow,
                       promotedPathIds |-> in.promotedPathIds],
                      0, FALSE, in.sets)

WalkBoth ==
    /\ walkOut = <<>>
    /\ walkOut' = <<[shallow |-> WalkOnce(walkIn[1], walkIn[1].d1),
                     deep |-> WalkOnce(walkIn[1], walkIn[1].d2)]>>
    /\ UNCHANGED <<walkIn, renderVars, loadVars, parseVars, selectVars, promoteVars,
                   coerceVars, cacheVars, stepVars, tokenVars, hostVars, pendVars>>

NextWalk == WalkBoth
SpecWalk == InitWalk /\ [][NextWalk]_vars

(***************************************************************************)
(* SpecCoerce: coerceCommentsLimit applied to a requested limit.           *)
(***************************************************************************)
\* <<>>: null, undefined, NaN or an infinity; <<n>>: the number n
CoerceInputs == { <<>> } \cup { <<n>> : n \in (0 - MaxCoerceValue)..MaxCoerceValue }

InitCoerce ==
    /\ coerceIn \in { <<v>> : v \in CoerceInputs }
    /\ coerceOut = <<>>
    /\ IdleRender /\ IdleParse /\ IdleSelect /\ IdlePromote /\ IdleWalk /\ IdleLoad
    /\ IdleCache /\ IdleStep /\ IdleToken /\ IdleHost /\ IdlePend

CoerceLimit ==
    /\ coerceOut = <<>>
    /\ coerceOut' = <<coerceCommentsLimit(coerceIn[1])>>
    /\ UNCHANGED <<coerceIn, renderVars, loadVars, parseVars, selectVars, promoteVars, walkVars,
                   cacheVars, stepVars, tokenVars, hostVars, pendVars>>

NextCoerce == CoerceLimit
SpecCoerce == InitCoerce /\ [][NextCoerce]_vars

(***************************************************************************)
(* SpecCache: the background's COMMENTS_CACHE_GET and COMMENTS_CACHE_SET   *)
(* handlers under messages of any reader page, with the clock.            *)
(***************************************************************************)
\* every key one post can ask for: two sort orders, each allowed limit
CacheKeySeq ==
    [i \in 1..(2 * Len(COMMENTS_LIMIT_OPTIONS)) |->
        IF i <= Len(COMMENTS_LIMIT_OPTIONS)
        THEN normalizeCommentsCacheKey("top", COMMENTS_LIMIT_OPTIONS[i])
        ELSE normalizeCommentsCacheKey("new",
                 COMMENTS_LIMIT_OPTIONS[i - Len(COMMENTS_LIMIT_OPTIONS)])]

\* the values sent: one of exactly the largest length that is stored, one
\* a character longer, null, and undefined (JSON.stringify gives undefined)
FitValue == [tag |-> "fit", truthy |-> TRUE, json |-> <<COMMENTS_CACHE_MAX_BYTES>>]
HugeValue == [tag |-> "huge", truthy |-> TRUE, json |-> <<COMMENTS_CACHE_MAX_BYTES + 1>>]
NullValue == [tag |-> "null", truthy |-> FALSE, json |-> <<4>>]
UndefinedValue == [tag |-> "undefined", truthy |-> FALSE, json |-> <<>>]
ProbeValues == {FitValue, HugeValue, NullValue, UndefinedValue}

\* the keys of the messages: the oldest key of a full cache, a key it does
\* not hold, and a key the handlers turn away
ProbeKeys == {CacheKeySeq[1], CacheKeySeq[COMMENTS_CACHE_MAX + 1], LongKey}

\* the cache after the first n keys were stored at time 0
RECURSIVE FilledCache(_)
FilledCache(n) ==
    IF n = 0 THEN <<>>
    ELSE CommentsCacheSet(FilledCache(n - 1), CacheKeySeq[n], FitValue, 0).cache

\* the clock moves in steps of half the time to live
TickMs == COMMENTS_CACHE_TTL_MS \div 2

InitCache ==
    /\ \E n \in {0, COMMENTS_CACHE_MAX} :
          /\ commentsCache = FilledCache(n)
          /\ storedAt = [k \in ProbeKeys |-> IF CacheIndex(FilledCache(n), k) # 0 THEN <<0>> ELSE <<>>]
    /\ now = 0
    /\ cacheLog = <<>>
    /\ IdleRender /\ IdleParse /\ IdleSelect /\ IdlePromote /\ IdleWalk /\ IdleCoerce /\ IdleStep /\ IdleToken /\ IdleHost /\ IdlePend
    /\ hasPermalink = TRUE /\ loadBudget = MaxLoads /\ uiReady = TRUE /\ toggleChecked = TRUE
    /\ commentsLoadSeq = 0 /\ commentsAbort = 0 /\ abortedCtl = {}
    /\ status = "success" /\ footer = updateCommentsFooter(FALSE, 100, FALSE)
    /\ limitValue = 100 /\ sortValue = "top" /\ controlsDisabled = FALSE
    /\ pendingScrollAnchor = <<>> /\ keepCommentsListDuringNextLoad = FALSE
    /\ loads = [l \in LoadSlots |-> IdleLoadRec]

cacheFrame == <<renderVars, parseVars, selectVars, promoteVars, walkVars, coerceVars, stepVars, tokenVars, hostVars, pendVars,
                hasPermalink, loadBudget, uiReady, toggleChecked, commentsLoadSeq, commentsAbort, abortedCtl,
                status, footer, limitValue, sortValue, controlsDisabled, pendingScrollAnchor,
                keepCommentsListDuringNextLoad, loads>>

\* a COMMENTS_CACHE_GET message is handled; held: the key had an entry
CacheGetMessage(key) ==
    /\ LET r == CommentsCacheGet(commentsCache, key, now)
       IN /\ commentsCache' = r.cache
          /\ cacheLog' = <<[op |-> "GET", key |-> key, value |-> <<>>, reply |-> r.reply,
                            held |-> CacheIndex(commentsCache, key) # 0]>>
    /\ UNCHANGED <<now, storedAt, cacheFrame>>

\* a COMMENTS_CACHE_SET message is handled
CacheSetMessage(key, value) ==
    /\ LET r == CommentsCacheSet(commentsCache, key, value, now)
       IN /\ commentsCache' = r.cache
          /\ cacheLog' = <<[op |-> "SET", key |-> key, value |-> <<value>>, reply |-> r.reply,
                            held |-> CacheIndex(commentsCache, key) # 0]>>
          /\ storedAt' = IF r.reply.ok THEN [storedAt EXCEPT ![key] = <<now>>] ELSE storedAt
    /\ UNCHANGED <<now, cacheFrame>>

\* time passes between two messages
Tick ==
    /\ now < MaxTicks * TickMs
    /\ now' = now + TickMs
    /\ cacheLog' = <<>>
    /\ UNCHANGED <<commentsCache, storedAt, cacheFrame>>

NextCache ==
    \/ \E key \in ProbeKeys : CacheGetMessage(key)
    \/ \E key \in ProbeKeys, value \in ProbeValues : CacheSetMessage(key, value)
    \/ Tick
SpecCache == InitCache /\ [][NextCache]_vars

(***************************************************************************)
(* Render-only events of the reader page.                                  *)
(***************************************************************************)
pureVars == <<parseVars, selectVars, promoteVars, walkVars, coerceVars, cacheVars, stepVars, tokenVars, hostVars, pendVars>>

\* a handler that bumps the load counter
ViewEventReloads ==
    /\ commentsLoadSeq' = commentsLoadSeq + 1
    /\ UNCHANGED <<hasPermalink, loadBudget, uiReady, toggleChecked, commentsAbort, abortedCtl,
                   status, footer, limitValue, sortValue, controlsDisabled, pendingScrollAnchor,
                   keepCommentsListDuringNextLoad, loads, commentsCache, now>>

\* the render-only handlers call rerenderComments() at most, never
\* loadComments(): what belongs to loading is left alone
ViewEventFrame == UNCHANGED loadVars

\* rerenderComments() run at the end of a handler: reads the handler's results
Rerendered ==
    rerenderComments(currentComments', depthValue', autoDepthChecked', hideLowChecked',
                     UiSets(expandedMoreById', expandedLowScoreById', collapsedById'))

\* the click handler of a rendered comment's collapse toggle
ToggleCollapse(id) ==
    /\ ~sectionHidden
    /\ id \in IdsIn(listEl)
    /\ collapsedById' = IF id \in collapsedById THEN collapsedById \ {id}
                        ELSE collapsedById \cup {id}
    /\ UNCHANGED <<currentComments, expandedMoreById, expandedLowScoreById, depthValue,
                   autoDepthChecked, hideLowChecked, clipboard, commentsVisible, sectionHidden>>
    /\ listEl' = Rerendered

\* the click handler of a "Show n more replies" button
ShowMoreReplies(id) ==
    /\ ~sectionHidden
    /\ \E i \in 1..Len(listEl) : listEl[i].id = id /\ listEl[i].showMore > 0
    /\ expandedMoreById' = expandedMoreById \cup {id}
    /\ UNCHANGED <<currentComments, collapsedById, expandedLowScoreById, depthValue,
                   autoDepthChecked, hideLowChecked, clipboard, commentsVisible, sectionHidden>>
    /\ listEl' = Rerendered

\* the click handler of a "Show n low-score replies" button
ShowLowScoreReplies(id) ==
    /\ ~sectionHidden
    /\ \E i \in 1..Len(listEl) : listEl[i].id = id /\ listEl[i].showLow > 0
    /\ expandedLowScoreById' = expandedLowScoreById \cup {id}
    /\ UNCHANGED <<currentComments, collapsedById, expandedMoreById, depthValue,
                   autoDepthChecked, hideLowChecked, clipboard, commentsVisible, sectionHidden>>
    /\ listEl' = Rerendered

\* onViewConfigChange: if (!commentsVisible) return; rerenderComments();
onViewConfigChange == listEl' = IF commentsVisible' THEN Rerendered ELSE listEl

\* the depth slider's 'input' listener: dragging unchecks auto-depth
DepthInput(d) ==
    /\ d # depthValue
    /\ depthValue' = d
    /\ autoDepthChecked' = FALSE
    /\ UNCHANGED <<currentComments, collapsedById, expandedMoreById, expandedLowScoreById,
                   hideLowChecked, clipboard, commentsVisible, sectionHidden, listEl>>

\* the depth slider's 'change' listener
DepthChange ==
    /\ UNCHANGED <<currentComments, collapsedById, expandedMoreById, expandedLowScoreById,
                   depthValue, autoDepthChecked, hideLowChecked, clipboard, commentsVisible,
                   sectionHidden>>
    /\ onViewConfigChange

\* the auto-depth checkbox's 'change' listener
AutoDepthChange ==
    /\ autoDepthChecked' = ~autoDepthChecked
    /\ UNCHANGED <<currentComments, collapsedById, expandedMoreById, expandedLowScoreById,
                   depthValue, hideLowChecked, clipboard, commentsVisible, sectionHidden>>
    /\ onViewConfigChange

\* the hide-low checkbox's 'change' listener
HideLowChange ==
    /\ hideLowChecked' = ~hideLowChecked
    /\ UNCHANGED <<currentComments, collapsedById, expandedMoreById, expandedLowScoreById,
                   depthValue, autoDepthChecked, clipboard, commentsVisible, sectionHidden>>
    /\ onViewConfigChange

\* the "copy post + comments" button
CopyPostComments ==
    /\ clipboard' = MarkdownNow
    /\ UNCHANGED <<currentComments, collapsedById, expandedMoreById, expandedLowScoreById,
                   depthValue, autoDepthChecked, hideLowChecked, commentsVisible, sectionHidden,
                   listEl>>

(***************************************************************************)
(* SpecRender: a held comment forest, rendered, under the render-only      *)
(* events.                                                                 *)
(***************************************************************************)
InitRender ==
    /\ currentComments \in Forests(MaxNodes, <<1>>, RenderScores)
    /\ expandedMoreById = {}
    /\ expandedLowScoreById = {}
    /\ collapsedById = {}
    /\ depthValue \in 0..MaxDepthSetting
    /\ autoDepthChecked \in BOOLEAN
    /\ hideLowChecked \in BOOLEAN
    /\ listEl = RenderedList
    /\ clipboard = <<>>
    /\ commentsVisible = TRUE
    /\ sectionHidden = FALSE
    /\ IdleParse /\ IdleSelect /\ IdlePromote /\ IdleWalk /\ IdleLoad
    /\ IdleCoerce /\ IdleCache /\ IdleStep /\ IdleToken /\ IdleHost /\ IdlePend

\* The clipboard is written and never read, so a run is followed up to its
\* first copy.
NextRender ==
    \/ clipboard = <<>> /\ \E id \in 1..MaxNodes : ToggleCollapse(id) /\ ViewEventFrame /\ UNCHANGED pureVars
    \/ clipboard = <<>> /\ \E id \in 1..MaxNodes : ShowMoreReplies(id) /\ ViewEventFrame /\ UNCHANGED pureVars
    \/ clipboard = <<>> /\ \E id \in 1..MaxNodes : ShowLowScoreReplies(id) /\ ViewEventFrame /\ UNCHANGED pureVars
    \/ clipboard = <<>> /\ \E d \in 0..MaxDepthSetting : DepthInput(d) /\ ViewEventFrame /\ UNCHANGED pureVars
    \/ clipboard = <<>> /\ DepthChange /\ ViewEventFrame /\ UNCHANGED pureVars
    \/ clipboard = <<>> /\ AutoDepthChange /\ ViewEventFrame /\ UNCHANGED pureVars
    \/ clipboard = <<>> /\ HideLowChange /\ ViewEventFrame /\ UNCHANGED pureVars
    \/ clipboard = <<>> /\ CopyPostComments /\ ViewEventFrame /\ UNCHANGED pureVars

SpecRender == InitRender /\ [][NextRender]_vars

(***************************************************************************)
(* loadComments(): one action per stretch between two awaits.              *)
(***************************************************************************)
setsVars == <<expandedMoreById, expandedLowScoreById, collapsedById>>
settingVars == <<depthValue, autoDepthChecked, hideLowChecked, clipboard>>
startVars == <<status, listEl, footer, currentComments, commentsLoadSeq, commentsAbort,
               abortedCtl, controlsDisabled, loads>>

\* loadComments() up to its first await, called with the limit and sort
\* selects at limitVal and sortVal and the keep-list flag at keep
loadComments(via, keep, limitVal, sortVal) ==
    IF ~hasPermalink
    THEN /\ sectionHidden' = FALSE
         /\ status' = "info"
         /\ listEl' = <<>>
         /\ footer' = updateCommentsFooter(FALSE, getCommentsLimit(limitVal), FALSE)
         /\ currentComments' = <<>>
         /\ UNCHANGED <<commentsLoadSeq, commentsAbort, abortedCtl, controlsDisabled, loads>>
    ELSE /\ commentsLoadSeq < loadBudget
         /\ commentsLoadSeq' = commentsLoadSeq + 1
         /\ abortedCtl' = IF commentsAbort = 0 THEN abortedCtl ELSE abortedCtl \cup {commentsAbort}
         /\ commentsAbort' = commentsLoadSeq + 1
         /\ sectionHidden' = FALSE
         /\ status' = "loading"
         /\ controlsDisabled' = TRUE
         /\ listEl' = IF keep THEN listEl ELSE <<>>
         /\ footer' = updateCommentsFooter(FALSE, getCommentsLimit(limitVal), keep)
         /\ loads' = [l \in LoadSlots |->
                        IF l = commentsLoadSeq + 1
                        THEN [IdleLoadRec EXCEPT !.pc = "cacheGet",
                                                 !.limit = getCommentsLimit(limitVal),
                                                 !.sort = sortVal, !.viaLoadMore = via = "more"]
                        ELSE IF loads[l].pc = "done" THEN [IdleLoadRec EXCEPT !.pc = "done"]
                        ELSE loads[l]]
         /\ UNCHANGED currentComments

\* initCommentsUI(): listeners attached, visibility taken from the switch
InitCommentsUI ==
    /\ ~uiReady
    /\ uiReady' = TRUE
    /\ commentsVisible' = toggleChecked
    /\ IF toggleChecked
       THEN loadComments("initial", keepCommentsListDuringNextLoad, limitValue, sortValue)
       ELSE sectionHidden' = TRUE /\ UNCHANGED startVars
    /\ UNCHANGED <<toggleChecked, keepCommentsListDuringNextLoad, pendingScrollAnchor, limitValue,
                   sortValue, hasPermalink, loadBudget, commentsCache, now, setsVars, settingVars>>

\* the 'change' listener of #toggle-comments-switch
ToggleSwitch ==
    /\ uiReady
    /\ toggleChecked' = ~toggleChecked
    /\ commentsVisible' = ~toggleChecked
    /\ IF ~toggleChecked /\ Len(currentComments) = 0
       THEN loadComments("toggle", keepCommentsListDuringNextLoad, limitValue, sortValue)
       ELSE sectionHidden' = toggleChecked /\ UNCHANGED startVars
    /\ UNCHANGED <<uiReady, keepCommentsListDuringNextLoad, pendingScrollAnchor, limitValue,
                   sortValue, hasPermalink, loadBudget, commentsCache, now, setsVars, settingVars>>

\* onFetchConfigChange, after the user picked v in the (enabled) limit select
LimitChange(v) ==
    /\ uiReady /\ ~controlsDisabled
    /\ v # limitValue
    /\ limitValue' = v
    /\ IF commentsVisible
       THEN loadComments("config", keepCommentsListDuringNextLoad, v, sortValue)
       ELSE UNCHANGED <<sectionHidden, startVars>>
    /\ UNCHANGED <<uiReady, toggleChecked, commentsVisible, keepCommentsListDuringNextLoad,
                   pendingScrollAnchor, sortValue, hasPermalink, loadBudget, commentsCache, now, setsVars,
                   settingVars>>

\* onFetchConfigChange, after the user picked v in the (enabled) sort select
SortChange(v) ==
    /\ uiReady /\ ~controlsDisabled
    /\ v # sortValue
    /\ sortValue' = v
    /\ IF commentsVisible
       THEN loadComments("config", keepCommentsListDuringNextLoad, limitValue, v)
       ELSE UNCHANGED <<sectionHidden, startVars>>
    /\ UNCHANGED <<uiReady, toggleChecked, commentsVisible, keepCommentsListDuringNextLoad,
                   pendingScrollAnchor, limitValue, hasPermalink, loadBudget, commentsCache, now, setsVars,
                   settingVars>>

\* the onclick updateCommentsFooter gives the "Load more comments" button
LoadMoreClick ==
    /\ ~sectionHidden
    /\ footer.onclick = "loadMore" /\ ~footer.disabled
    /\ \E anchor \in ScrollAnchors(listEl) : pendingScrollAnchor' = anchor
    /\ keepCommentsListDuringNextLoad' = TRUE
    /\ limitValue' = NextLimit(getCommentsLimit(limitValue))
    /\ loadComments("more", TRUE, NextLimit(getCommentsLimit(limitValue)), sortValue)
    /\ UNCHANGED <<uiReady, toggleChecked, commentsVisible, sortValue, hasPermalink, loadBudget, commentsCache,
                   now, setsVars, settingVars>>

\* the Retry button of the error status
RetryClick ==
    /\ ~sectionHidden
    /\ status = "error"
    /\ loadComments("retry", keepCommentsListDuringNextLoad, limitValue, sortValue)
    /\ UNCHANGED <<uiReady, toggleChecked, commentsVisible, keepCommentsListDuringNextLoad,
                   pendingScrollAnchor, limitValue, sortValue, hasPermalink, loadBudget, commentsCache, now,
                   setsVars, settingVars>>

\* what no continuation of a load touches
pageVars == <<commentsVisible, sectionHidden, hasPermalink, loadBudget, uiReady, toggleChecked,
              commentsLoadSeq, abortedCtl, limitValue, sortValue, now, settingVars>>

\* the background's COMMENTS_CACHE_GET handler answers load l
BgCacheGet(l) ==
    /\ loads[l].pc = "cacheGet"
    /\ LET r == CommentsCacheGet(commentsCache,
                                 normalizeCommentsCacheKey(loads[l].sort, loads[l].limit), now)
       IN /\ commentsCache' = r.cache
          /\ loads' = [loads EXCEPT ![l].pc = "cacheGot", ![l].reply = <<r.reply>>,
                                    ![l].gotHit = r.reply.hit]
    /\ UNCHANGED <<pageVars, currentComments, listEl, setsVars, status, footer, commentsAbort,
                   controlsDisabled, pendingScrollAnchor, keepCommentsListDuringNextLoad>>

\* sendMessage(COMMENTS_CACHE_GET) of load l rejects
CacheGetFails(l) ==
    /\ loads[l].pc = "cacheGet"
    /\ loads' = [loads EXCEPT ![l].pc = "cacheGot",
                              ![l].reply = <<[hit |-> FALSE, value |-> <<>>]>>]
    /\ UNCHANGED <<pageVars, currentComments, listEl, setsVars, status, footer, commentsAbort,
                   controlsDisabled, pendingScrollAnchor, keepCommentsListDuringNextLoad,
                   commentsCache>>

\* requestSeq === commentsLoadSeq, where a cache hit is applied
CommitsCached(l) == l = commentsLoadSeq

\* if (requestSeq !== commentsLoadSeq) return; after the parse
CommitsParsedAlways(l) == TRUE

CommitsParsed(l) == l = commentsLoadSeq

\* the catch block goes on to the error transition: no AbortError, not stale
CatchSurfacesAlways(l, err) == TRUE
CatchSurfacesNever(l, err) == FALSE

CatchSurfaces(l, err) == err # "AbortError" /\ l = commentsLoadSeq

\* a finally block that leaves the limit and sort controls as they are
FinallyKeepsDisabled(l) ==
    /\ keepCommentsListDuringNextLoad' = FALSE
    /\ controlsDisabled' = controlsDisabled
    /\ commentsAbort' = IF l = commentsLoadSeq THEN 0 ELSE commentsAbort

\* the finally block of load l
Finally(l) ==
    /\ keepCommentsListDuringNextLoad' = FALSE
    /\ controlsDisabled' = IF l = commentsLoadSeq THEN FALSE ELSE controlsDisabled
    /\ commentsAbort' = IF l = commentsLoadSeq THEN 0 ELSE commentsAbort

\* load l returns
Done(l, outcome, produced) ==
    LET kept == l = commentsLoadSeq /\ outcome \in {"cached", "parsed"}
        more == IF outcome = "parsed" THEN loads[l].parsed[1].hasMore
                ELSE loads[l].reply[1].value[1].hasMore
    IN loads' = [loads EXCEPT ![l] = [IdleLoadRec EXCEPT
                                        !.pc = "done", !.outcome = outcome, !.produced = produced,
                                        !.late = l # commentsLoadSeq
                                                 /\ loads[commentsLoadSeq].pc = "done",
                                        !.limit = IF kept THEN loads[l].limit ELSE 0,
                                        !.more = kept /\ more]]

\* a catch block that also empties the per-node sets
CatchClearsSets(l, err) ==
    /\ IF CatchSurfaces(l, err)
       THEN /\ status' = "error"
            /\ listEl' = <<>>
            /\ footer' = updateCommentsFooter(keepCommentsListDuringNextLoad, loads[l].limit, FALSE)
            /\ currentComments' = <<>>
            /\ expandedMoreById' = {}
            /\ expandedLowScoreById' = {}
            /\ collapsedById' = {}
       ELSE UNCHANGED <<status, listEl, footer, currentComments, setsVars>>
    /\ Finally(l)
    /\ Done(l, IF CatchSurfaces(l, err) THEN "failed"
               ELSE IF err = "AbortError" THEN "aborted" ELSE "stale", <<>>)
    /\ UNCHANGED <<pageVars, pendingScrollAnchor, commentsCache>>

\* the catch and finally blocks of load l, for the error err
Catch(l, err) ==
    /\ IF CatchSurfaces(l, err)
       THEN /\ status' = "error"
            /\ listEl' = <<>>
            /\ footer' = updateCommentsFooter(keepCommentsListDuringNextLoad, loads[l].limit, FALSE)
            /\ currentComments' = <<>>
       ELSE UNCHANGED <<status, listEl, footer, currentComments>>
    /\ Finally(l)
    /\ Done(l, IF CatchSurfaces(l, err) THEN "failed"
               ELSE IF err = "AbortError" THEN "aborted" ELSE "stale", <<>>)
    /\ UNCHANGED <<pageVars, setsVars, pendingScrollAnchor, commentsCache>>

\* load l resumes after its cache GET
GetReply(l) ==
    /\ loads[l].pc = "cacheGot"
    /\ LET r == loads[l].reply[1]
       IN IF r.hit /\ Len(r.value) = 1 /\ CommitsCached(l)
          THEN /\ currentComments' = r.value[1].comments
               /\ expandedMoreById' = {}
               /\ expandedLowScoreById' = {}
               /\ collapsedById' = {}
               /\ status' = "success"
               /\ listEl' = rerenderComments(r.value[1].comments, depthValue, autoDepthChecked,
                                             hideLowChecked, UiSets({}, {}, {}))
               /\ pendingScrollAnchor' = <<>>
               /\ footer' = updateCommentsFooter(r.value[1].hasMore, loads[l].limit, FALSE)
               /\ Finally(l)
               /\ Done(l, "cached", <<r.value[1].comments>>)
               /\ UNCHANGED <<pageVars, commentsCache>>
          ELSE IF commentsAbort = 0
          THEN Catch(l, "TypeError")
          ELSE /\ loads' = [loads EXCEPT ![l].pc = "fetch", ![l].reply = <<>>,
                                         ![l].signal = commentsAbort]
               /\ UNCHANGED <<pageVars, currentComments, listEl, setsVars, status, footer,
                              commentsAbort, controlsDisabled, pendingScrollAnchor,
                              keepCommentsListDuringNextLoad, commentsCache>>

\* the fetch of load l rejects because its signal was aborted
FetchAbort(l) ==
    /\ loads[l].pc = "fetch"
    /\ loads[l].signal \in abortedCtl
    /\ Catch(l, "AbortError")

\* the fetch of load l rejects (network) or answers with a non-2xx status
FetchFails(l) ==
    /\ loads[l].pc = "fetch"
    /\ loads[l].signal \notin abortedCtl
    /\ Catch(l, "Error")

\* the fetch of load l answers with a 2xx status
FetchResponds(l) ==
    /\ loads[l].pc = "fetch"
    /\ loads[l].signal \notin abortedCtl
    /\ loads' = [loads EXCEPT ![l].pc = "json"]
    /\ UNCHANGED <<pageVars, currentComments, listEl, setsVars, status, footer, commentsAbort,
                   controlsDisabled, pendingScrollAnchor, keepCommentsListDuringNextLoad,
                   commentsCache>>

\* response.json() of load l rejects because the signal was aborted
JsonAbort(l) ==
    /\ loads[l].pc = "json"
    /\ loads[l].signal \in abortedCtl
    /\ Catch(l, "AbortError")

\* response.json() of load l rejects: the body is no JSON
JsonRejects(l) ==
    /\ loads[l].pc = "json"
    /\ loads[l].signal \notin abortedCtl
    /\ Catch(l, "SyntaxError")

\* response.json() of load l resolves (the body may have been read before an
\* abort); the body's comment listing is parsed
JsonResolves(l, listing) ==
    /\ loads[l].pc = "json"
    /\ LET parsed == parseCommentsListing([isArray |-> TRUE, children |-> listing])
       IN IF ~CommitsParsed(l)
          THEN /\ Finally(l)
               /\ Done(l, "stale", <<>>)
               /\ UNCHANGED <<currentComments, setsVars, status>>
          ELSE /\ currentComments' = parsed.comments
               /\ expandedMoreById' = {}
               /\ expandedLowScoreById' = {}
               /\ collapsedById' = {}
               /\ status' = "success"
               /\ loads' = [loads EXCEPT ![l].pc = "cacheSet", ![l].parsed = <<parsed>>,
                                         ![l].outcome = "parsed",
                                         ![l].produced = <<parsed.comments>>]
               /\ UNCHANGED <<commentsAbort, controlsDisabled, keepCommentsListDuringNextLoad>>
    /\ UNCHANGED <<pageVars, listEl, footer, pendingScrollAnchor, commentsCache>>

\* the background's COMMENTS_CACHE_SET handler stores the value of load l
BgCacheSet(l) ==
    /\ loads[l].pc = "cacheSet"
    /\ LET r == CommentsCacheSet(commentsCache,
                                 normalizeCommentsCacheKey(loads[l].sort, loads[l].limit),
                                 CacheValue(loads[l].parsed[1]), now)
       IN /\ commentsCache' = r.cache
          /\ loads' = [loads EXCEPT ![l].pc = "cacheSetDone",
                                    ![l].setRes = IF r.reply.ok THEN "ok" ELSE "rejected"]
    /\ UNCHANGED <<pageVars, currentComments, listEl, setsVars, status, footer, commentsAbort,
                   controlsDisabled, pendingScrollAnchor, keepCommentsListDuringNextLoad>>

\* sendMessage(COMMENTS_CACHE_SET) of load l rejects
CacheSetFails(l) ==
    /\ loads[l].pc = "cacheSet"
    /\ loads' = [loads EXCEPT ![l].pc = "cacheSetDone", ![l].setRes = "send_failed"]
    /\ UNCHANGED <<pageVars, currentComments, listEl, setsVars, status, footer, commentsAbort,
                   controlsDisabled, pendingScrollAnchor, keepCommentsListDuringNextLoad,
                   commentsCache>>

\* the background's COMMENTS_CACHE_SET handler turns the message of load l
\* away, for its key (the permalink makes it longer than 400 characters) or
\* for the length of the value's JSON text: the map is left as it is
BgCacheSetRejects(l) ==
    /\ loads[l].pc = "cacheSet"
    /\ loads' = [loads EXCEPT ![l].pc = "cacheSetDone", ![l].setRes = "rejected"]
    /\ UNCHANGED <<pageVars, currentComments, listEl, setsVars, status, footer, commentsAbort,
                   controlsDisabled, pendingScrollAnchor, keepCommentsListDuringNextLoad,
                   commentsCache>>

\* sendMessage(COMMENTS_CACHE_SET) of load l resolves with no object
CacheSetNoResponse(l) ==
    /\ loads[l].pc = "cacheSet"
    /\ loads' = [loads EXCEPT ![l].pc = "cacheSetDone", ![l].setRes = "no_response"]
    /\ UNCHANGED <<pageVars, currentComments, listEl, setsVars, status, footer, commentsAbort,
                   controlsDisabled, pendingScrollAnchor, keepCommentsListDuringNextLoad,
                   commentsCache>>

\* renders after the cache SET only when the SET was accepted
SetReplyWhenStored(l) ==
    /\ loads[l].pc = "cacheSetDone"
    /\ footer' = updateCommentsFooter(loads[l].parsed[1].hasMore, loads[l].limit, FALSE)
    /\ listEl' = IF loads[l].setRes = "ok"
                 THEN rerenderComments(currentComments, depthValue, autoDepthChecked,
                                       hideLowChecked,
                                       UiSets(expandedMoreById, expandedLowScoreById, collapsedById))
                 ELSE listEl
    /\ pendingScrollAnchor' = <<>>
    /\ Finally(l)
    /\ Done(l, "parsed", loads[l].produced)
    /\ UNCHANGED <<pageVars, currentComments, setsVars, status, commentsCache>>

\* load l resumes after its cache SET: footer, rerender, scroll anchor, finally
SetReply(l) ==
    /\ loads[l].pc = "cacheSetDone"
    /\ footer' = updateCommentsFooter(loads[l].parsed[1].hasMore, loads[l].limit, FALSE)
    /\ listEl' = rerenderComments(currentComments, depthValue, autoDepthChecked, hideLowChecked,
                                  UiSets(expandedMoreById, expandedLowScoreById, collapsedById))
    /\ pendingScrollAnchor' = <<>>
    /\ Finally(l)
    /\ Done(l, "parsed", loads[l].produced)
    /\ UNCHANGED <<pageVars, currentComments, setsVars, status, commentsCache>>

(***************************************************************************)
(* Spec: the reader page from construction on, with the background's       *)
(* comments cache and the reddit server.                                   *)
(***************************************************************************)
Init ==
    /\ currentComments = <<>>
    /\ expandedMoreById = {}
    /\ expandedLowScoreById = {}
    /\ collapsedById = {}
    /\ depthValue = 1
    /\ autoDepthChecked = TRUE
    /\ hideLowChecked = TRUE
    /\ listEl = <<>>
    /\ clipboard = <<>>
    /\ commentsVisible = TRUE
    /\ sectionHidden = FALSE
    /\ hasPermalink \in BOOLEAN
    /\ loadBudget = MaxLoads
    /\ uiReady = FALSE
    /\ toggleChecked \in BOOLEAN
    /\ commentsLoadSeq = 0
    /\ commentsAbort = 0
    /\ abortedCtl = {}
    /\ status = "none"
    /\ footer = NoFooterButton
    /\ limitValue \in InitialLimits
    /\ sortValue = "top"
    /\ controlsDisabled = FALSE
    /\ pendingScrollAnchor = <<>>
    /\ keepCommentsListDuringNextLoad = FALSE
    /\ loads = [l \in LoadSlots |-> IdleLoadRec]
    /\ commentsCache \in InitialCaches
    /\ now = 0
    /\ IdleParse /\ IdleSelect /\ IdlePromote /\ IdleWalk /\ IdleCoerce /\ IdleCache /\ IdleStep /\ IdleToken /\ IdleHost /\ IdlePend

\* what can happen once initCommentsUI() has run
PageStep ==
    \/ ToggleSwitch /\ UNCHANGED pureVars
    \/ \E v \in LimitChoices : LimitChange(v) /\ UNCHANGED pureVars
    \/ \E v \in SortChoices : SortChange(v) /\ UNCHANGED pureVars
    \/ LoadMoreClick /\ UNCHANGED pureVars
    \/ RetryClick /\ UNCHANGED pureVars
    \/ \E l \in LoadSlots : BgCacheGet(l) /\ UNCHANGED pureVars
    \/ \E l \in LoadSlots : CacheGetFails(l) /\ UNCHANGED pureVars
    \/ \E l \in LoadSlots : GetReply(l) /\ UNCHANGED pureVars
    \/ \E l \in LoadSlots : FetchAbort(l) /\ UNCHANGED pureVars
    \/ \E l \in LoadSlots : FetchFails(l) /\ UNCHANGED pureVars
    \/ \E l \in LoadSlots : FetchResponds(l) /\ UNCHANGED pureVars
    \/ \E l \in LoadSlots : JsonAbort(l) /\ UNCHANGED pureVars
    \/ \E l \in LoadSlots : JsonRejects(l) /\ UNCHANGED pureVars
    \/ \E l \in LoadSlots, listing \in ServerListings : JsonResolves(l, listing) /\ UNCHANGED pureVars
    \/ \E l \in LoadSlots : BgCacheSet(l) /\ UNCHANGED pureVars
    \/ \E l \in LoadSlots : CacheSetFails(l) /\ UNCHANGED pureVars
    \/ \E l \in LoadSlots : SetReply(l) /\ UNCHANGED pureVars
    \/ \E id \in 1..3 : ToggleCollapse(id) /\ ViewEventFrame /\ UNCHANGED pureVars

Next ==
    \/ InitCommentsUI /\ UNCHANGED pureVars
    \/ PageStep

Spec == Init /\ [][Next]_vars

\* one step of load l: a message or request of it resolves or rejects and the
\* call runs on to its next await or to its return
LoadStep(l) ==
    \/ BgCacheGet(l) /\ UNCHANGED pureVars
    \/ CacheGetFails(l) /\ UNCHANGED pureVars
    \/ GetReply(l) /\ UNCHANGED pureVars
    \/ FetchAbort(l) /\ UNCHANGED pureVars
    \/ FetchFails(l) /\ UNCHANGED pureVars
    \/ FetchResponds(l) /\ UNCHANGED pureVars
    \/ JsonAbort(l) /\ UNCHANGED pureVars
    \/ JsonRejects(l) /\ UNCHANGED pureVars
    \/ (\E listing \in ServerListings : JsonResolves(l, listing) /\ UNCHANGED pureVars)
    \/ BgCacheSet(l) /\ UNCHANGED pureVars
    \/ CacheSetFails(l) /\ UNCHANGED pureVars
    \/ SetReply(l) /\ UNCHANGED pureVars


(***************************************************************************)
(* SpecView: the reader page while a load started by "load more" is under  *)
(* way over a rendered list, under the render-only events and the steps of *)
(* that load. The first load, at limit 400, took a comment with a          *)
(* low-score reply and a placeholder, stored it and returned.              *)
(***************************************************************************)
ViewListing == <<ServerComment(1, <<5>>, <<ServerComment(2, <<-3>>, <<>>)>>), ServerMore>>
ViewParsed == parseCommentsListing([isArray |-> TRUE, children |-> ViewListing])

InitView ==
    /\ currentComments = ViewParsed.comments
    /\ expandedMoreById = {}
    /\ expandedLowScoreById = {}
    /\ collapsedById = {}
    /\ depthValue = 1
    /\ autoDepthChecked = TRUE
    /\ hideLowChecked = TRUE
    /\ listEl = rerenderComments(ViewParsed.comments, 1, TRUE, TRUE, UiSets({}, {}, {}))
    /\ clipboard = <<>>
    /\ commentsVisible = TRUE
    /\ sectionHidden = FALSE
    /\ hasPermalink = TRUE
    /\ loadBudget = MaxLoads
    /\ uiReady = TRUE
    /\ toggleChecked = TRUE
    /\ commentsLoadSeq = 2
    /\ commentsAbort = 2
    /\ abortedCtl = {}
    /\ status = "loading"
    /\ footer = updateCommentsFooter(FALSE, 500, TRUE)
    /\ limitValue = 500
    /\ sortValue = "top"
    /\ controlsDisabled = TRUE
    /\ pendingScrollAnchor = <<1>>
    /\ keepCommentsListDuringNextLoad = TRUE
    /\ loads = [l \in LoadSlots |->
                   IF l = 1 THEN [IdleLoadRec EXCEPT !.pc = "done"]
                   ELSE IF l = 2
                   THEN [IdleLoadRec EXCEPT !.pc = "cacheGet", !.limit = 500, !.sort = "top",
                                            !.viaLoadMore = TRUE]
                   ELSE IdleLoadRec]
    /\ commentsCache = CommentsCacheSet(<<>>, normalizeCommentsCacheKey("top", 400),
                                        CacheValue(ViewParsed), 0).cache
    /\ now = 0
    /\ IdleParse /\ IdleSelect /\ IdlePromote /\ IdleWalk /\ IdleCoerce /\ IdleCache /\ IdleStep /\ IdleToken /\ IdleHost /\ IdlePend

\* a render-only event
ViewEvent ==
    \/ \E id \in 1..MaxNodes : ToggleCollapse(id)
    \/ \E id \in 1..MaxNodes : ShowMoreReplies(id)
    \/ \E id \in 1..MaxNodes : ShowLowScoreReplies(id)
    \/ \E d \in 0..MaxDepthSetting : DepthInput(d)
    \/ DepthChange
    \/ AutoDepthChange
    \/ HideLowChange

\* what no step of the page touches
viewFrame == <<parseVars, selectVars, promoteVars, walkVars, coerceVars, cacheVars, tokenVars, hostVars, pendVars>>

NextView ==
    \/ ViewEvent /\ ViewEventFrame /\ lastStep' = "view" /\ UNCHANGED viewFrame
    \/ \E l \in LoadSlots : BgCacheGet(l) /\ lastStep' = "load" /\ UNCHANGED viewFrame
    \/ \E l \in LoadSlots : CacheGetFails(l) /\ lastStep' = "load" /\ UNCHANGED viewFrame
    \/ \E l \in LoadSlots : GetReply(l) /\ lastStep' = "load" /\ UNCHANGED viewFrame
    \/ \E l \in LoadSlots : FetchFails(l) /\ lastStep' = "load" /\ UNCHANGED viewFrame
    \/ \E l \in LoadSlots : FetchResponds(l) /\ lastStep' = "load" /\ UNCHANGED viewFrame
    \/ \E l \in LoadSlots : JsonRejects(l) /\ lastStep' = "load" /\ UNCHANGED viewFrame
    \/ \E l \in LoadSlots, listing \in ServerListings : JsonResolves(l, listing) /\ lastStep' = "load" /\ UNCHANGED viewFrame
    \/ \E l \in LoadSlots : BgCacheSet(l) /\ lastStep' = "load" /\ UNCHANGED viewFrame
    \/ \E l \in LoadSlots : CacheSetFails(l) /\ lastStep' = "load" /\ UNCHANGED viewFrame
    \/ \E l \in LoadSlots : SetReply(l) /\ lastStep' = "load" /\ UNCHANGED viewFrame
SpecView == InitView /\ [][NextView]_vars

(***************************************************************************)
(* SpecStale: the reader page from the point where its first load, at      *)
(* limit 400, has taken the server's listing into the tree and awaits the  *)
(* reply to its COMMENTS_CACHE_SET; MaxLoads more loads are followed.      *)
(***************************************************************************)
InitStale ==
    /\ \E listing \in ServerListings :
          LET parsed == parseCommentsListing([isArray |-> TRUE, children |-> listing])
          IN /\ currentComments = parsed.comments
             /\ loads = [l \in LoadSlots |->
                            IF l = 1
                            THEN [IdleLoadRec EXCEPT !.pc = "cacheSet", !.limit = 400,
                                                     !.sort = "top", !.signal = 1,
                                                     !.parsed = <<parsed>>, !.outcome = "parsed",
                                                     !.produced = <<parsed.comments>>]
                            ELSE IdleLoadRec]
    /\ expandedMoreById = {}
    /\ expandedLowScoreById = {}
    /\ collapsedById = {}
    /\ depthValue = 1
    /\ autoDepthChecked = TRUE
    /\ hideLowChecked = TRUE
    /\ listEl = <<>>
    /\ clipboard = <<>>
    /\ commentsVisible = TRUE
    /\ sectionHidden = FALSE
    /\ hasPermalink = TRUE
    /\ loadBudget = MaxLoads + 1
    /\ uiReady = TRUE
    /\ toggleChecked = TRUE
    /\ commentsLoadSeq = 1
    /\ commentsAbort = 1
    /\ abortedCtl = {}
    /\ status = "success"
    /\ footer = updateCommentsFooter(FALSE, 400, FALSE)
    /\ limitValue = 400
    /\ sortValue = "top"
    /\ controlsDisabled = TRUE
    /\ pendingScrollAnchor = <<>>
    /\ keepCommentsListDuringNextLoad = FALSE
    /\ commentsCache = <<>>
    /\ now = 0
    /\ IdleParse /\ IdleSelect /\ IdlePromote /\ IdleWalk /\ IdleCoerce /\ IdleCache /\ IdleStep /\ IdleToken /\ IdleHost /\ IdlePend

NextStale == PageStep
SpecStale == InitStale /\ [][NextStale]_vars

(***************************************************************************)
(* SpecSets: the reader page with per-node state left over from a list     *)
(* that is gone. A load (limit 400) was rendered and stored; the user set  *)
(* the depth to 0 and switched hide-low off, expanded the replies of       *)
(* comment 1, switched hide-low on and showed its low-score replies,       *)
(* collapsed it, and picked limit 500; that load failed and limit 400 was  *)
(* picked again. Loads are numbered from that load on. From there: the     *)
(* steps of the loads, the events that start loads and the render-only     *)
(* events.                                                                 *)
(***************************************************************************)
InitSets ==
    /\ currentComments = <<>>
    /\ expandedMoreById = {1}
    /\ expandedLowScoreById = {1}
    /\ collapsedById = {1}
    /\ depthValue = 0
    /\ autoDepthChecked = FALSE
    /\ hideLowChecked = TRUE
    /\ listEl = <<>>
    /\ clipboard = <<>>
    /\ commentsVisible = TRUE
    /\ sectionHidden = FALSE
    /\ hasPermalink = TRUE
    /\ loadBudget = MaxLoads
    /\ uiReady = TRUE
    /\ toggleChecked = TRUE
    /\ commentsLoadSeq = 1
    /\ commentsAbort = 1
    /\ abortedCtl = {}
    /\ status = "loading"
    /\ footer = updateCommentsFooter(FALSE, 400, FALSE)
    /\ limitValue = 400
    /\ sortValue = "top"
    /\ controlsDisabled = TRUE
    /\ pendingScrollAnchor = <<>>
    /\ keepCommentsListDuringNextLoad = FALSE
    /\ loads = [l \in LoadSlots |->
                   IF l = 1
                   THEN [IdleLoadRec EXCEPT !.pc = "cacheGet", !.limit = 400, !.sort = "top"]
                   ELSE IdleLoadRec]
    /\ commentsCache = CommentsCacheSet(<<>>, normalizeCommentsCacheKey("top", 400),
                                        CacheValue(ViewParsed), 0).cache
    /\ now = 0
    /\ IdleParse /\ IdleSelect /\ IdlePromote /\ IdleWalk /\ IdleCoerce /\ IdleCache
    /\ IdleStep /\ IdleToken /\ IdleHost /\ IdlePend

NextSets ==
    \/ PageStep
    \/ \E id \in 1..MaxNodes : ShowMoreReplies(id) /\ ViewEventFrame /\ UNCHANGED pureVars
    \/ \E id \in 1..MaxNodes : ShowLowScoreReplies(id) /\ ViewEventFrame /\ UNCHANGED pureVars
    \/ \E d \in 0..MaxDepthSetting : DepthInput(d) /\ ViewEventFrame /\ UNCHANGED pureVars
    \/ DepthChange /\ ViewEventFrame /\ UNCHANGED pureVars
    \/ AutoDepthChange /\ ViewEventFrame /\ UNCHANGED pureVars
    \/ HideLowChange /\ ViewEventFrame /\ UNCHANGED pureVars

SpecSets == InitSets /\ [][NextSets]_vars

(***************************************************************************)
(* SpecSet: the reader page of a post with comments shown, from            *)
(* construction on, with every outcome the page tells apart of the         *)
(* COMMENTS_CACHE_SET message: stored, turned away, answered with no       *)
(* object, not sent.                                                       *)
(***************************************************************************)
InitSet ==
    /\ Init
    /\ hasPermalink /\ toggleChecked
    /\ limitValue = 400

NextSet ==
    \/ Next
    \/ \E l \in LoadSlots : BgCacheSetRejects(l) /\ UNCHANGED pureVars
    \/ \E l \in LoadSlots : CacheSetNoResponse(l) /\ UNCHANGED pureVars

SpecSet == InitSet /\ [][NextSet]_vars

\* SpecLive: the page with its comments shown, where every message and every
\* request of a load is answered in the end; the user's events are under no
\* such condition
SpecLive == InitSet /\ [][Next]_vars /\ \A l \in LoadSlots : WF_vars(LoadStep(l))

(***************************************************************************)
(* Properties of the pure functions.                                       *)
(***************************************************************************)
\* every comment of a forest, with its depth below its top-level comment and
\* the ids on the path from that top-level comment down to it
RECURSIVE NodesBelow(_, _, _)
NodesBelow(node, depth, above) ==
    {[id |-> node.id, score |-> ScoreOf(node), depth |-> depth, path |-> above \cup {node.id}]}
    \cup UNION { NodesBelow(node.replies[i], depth + 1, above \cup {node.id}) :
                 i \in 1..Len(node.replies) }

ForestNodes(forest) == UNION { NodesBelow(forest[i], 0, {}) : i \in 1..Len(forest) }

\* every entry of a raw listing, at any nesting level
RECURSIVE RawEntries(_)
RawEntries(children) ==
    UNION { {children[i]} \cup
            (IF Len(children[i].data) = 1 THEN RawEntries(children[i].data[1].replies) ELSE {}) :
            i \in 1..Len(children) }

\* C8: computePromotedPathIds returns the empty set whenever no node deeper
\* than depthLimit has score >= 5, and otherwise the union of the root-to-node
\* paths of between one and three nodes, each deeper than depthLimit.
C8_PromotionBound ==
    promoteOut # <<>> =>
        LET in == promoteIn[1]
            deep == { x \in NodesBelow(in.root, 0, {}) : x.depth > in.depthLimit }
        IN IF \A x \in deep : x.score < 5
           THEN promoteOut[1] = {}
           ELSE \E S \in SUBSET deep :
                    /\ Cardinality(S) \in 1..3
                    /\ promoteOut[1] = UNION { x.path : x \in S }

\* four nodes beyond the depth limit all reach the threshold, so the cut to
\* three decides the result
C8_Witness ==
    /\ promoteOut # <<>>
    /\ promoteOut[1] # {}
    /\ LET in == promoteIn[1]
           deep == { x \in NodesBelow(in.root, 0, {}) : x.depth > in.depthLimit }
       IN Cardinality({ x \in deep : x.score = 24 }) >= 4

\* C9: a child is hidden for low score exactly when hide-low is on, its score
\* (absent: 0) is <= -3 and the parent is not in the expanded-low-score set;
\* such a child is counted in hiddenLowScoreCount and never in
\* hiddenDepthCount, whatever its depth, promotion or unlimited-depth state.
C9_LowScorePrecedence ==
    selectOut # <<>> =>
        LET in == selectIn[1]
            out == selectOut[1]
            kids == in.parent.replies
            low == { k \in 1..Len(kids) :
                       in.hideLow /\ ScoreOf(kids[k]) <= -3 /\ in.parent.id \notin expandedLowScoreById }
            byDepth == { k \in 1..Len(kids) :
                           in.unlimitedDepth \/ in.depth <= in.depthLimit
                           \/ kids[k].id \in in.promotedPathIds }
        IN /\ out.hiddenLowScoreCount = Cardinality(low)
           /\ out.hiddenDepthCount = Cardinality((1..Len(kids)) \ (low \cup byDepth))
           /\ IdsIn(out.visible) = { kids[k].id : k \in (1..Len(kids)) \ low } \cap
                                   { kids[k].id : k \in byDepth }

\* a reply with score exactly -3 that is within depth, promoted and in an
\* unlimited subtree is hidden for its score, next to a reply of score -2
C9_Witness ==
    /\ selectOut # <<>>
    /\ LET in == selectIn[1]
           kids == in.parent.replies
       IN /\ in.hideLow /\ in.unlimitedDepth /\ in.depth <= in.depthLimit
          /\ expandedLowScoreById = {}
          /\ Len(kids) = 2
          /\ kids[1].score = <<-3>> /\ kids[1].id \in in.promotedPathIds
          /\ kids[2].score = <<-2>>
          /\ selectOut[1].hiddenLowScoreCount = 1
          /\ selectOut[1].hiddenDepthCount = 0
          /\ IdsIn(selectOut[1].visible) = {kids[2].id}

\* C10: parseCommentsListing never turns a placeholder ("more") entry into a
\* comment node, and hasMore is true exactly when the top-level listing holds
\* at least one placeholder entry.
C10_PlaceholderHandling ==
    parseOut # <<>> =>
        LET in == parseIn[1]
            out == parseOut[1]
            moreIds == { e.data[1].id : e \in { x \in RawEntries(in.children) : x.kind = "more" } }
        IN /\ { x.id : x \in ForestNodes(out.comments) } \cap moreIds = {}
           /\ out.hasMore = (in.isArray /\ \E i \in 1..Len(in.children) : in.children[i].kind = "more")

\* a listing with a top-level placeholder, a comment and a placeholder
\* nested in that comment's replies
C10_Witness ==
    /\ parseOut # <<>>
    /\ parseOut[1].hasMore
    /\ Len(parseOut[1].comments) = 1
    /\ LET in == parseIn[1]
       IN /\ \E i \in 1..Len(in.children) : in.children[i].kind = "more"
          /\ \E i \in 1..Len(in.children) :
                /\ in.children[i].kind = "t1" /\ Len(in.children[i].data) = 1
                /\ \E j \in 1..Len(in.children[i].data[1].replies) :
                      in.children[i].data[1].replies[j].kind = "more"

\* C6: for every held tree, every depth, hide-low and auto-depth setting and
\* every content of the three per-node sets, the comment ids the DOM render
\* walk emits are the comment ids the markdown export walk emits.
C6_RenderMarkdownSameIds == IdsIn(RenderedList) = IdsIn(MarkdownNow)

\* C7: for a fixed tree, hide-low flag, per-node sets and promoted-id set, every
\* comment the render walk shows under depth limit d1 is shown under any
\* depth limit d2 >= d1.
C7_DepthMonotone ==
    walkOut # <<>> => IdsIn(walkOut[1].shallow) \subseteq IdsIn(walkOut[1].deep)

\* the deeper limit shows a comment the shallower one cuts, while a promoted
\* comment beyond the shallower limit is shown by both
C7_Witness ==
    /\ walkOut # <<>>
    /\ IdsIn(walkOut[1].shallow) # IdsIn(walkOut[1].deep)
    /\ \E i \in 1..Len(walkOut[1].shallow) :
          /\ walkOut[1].shallow[i].depth > walkIn[1].d1
          /\ walkOut[1].shallow[i].id \in walkIn[1].promotedPathIds

(***************************************************************************)
(* Properties of comment loading.                                          *)
(***************************************************************************)
Loads == LoadSlots

\* every call of loadComments() has returned
AllResolved == \A l \in Loads : loads[l].pc \in {"idle", "done"}

\* load l moves on in this step (it was started before)
Resumes(l) == loads[l].pc # "idle" /\ loads'[l].pc # loads[l].pc

C2_StaleLoadWritesNothing ==
    [][\A l \in Loads :
          (l # commentsLoadSeq /\ Resumes(l)) =>
              UNCHANGED <<currentComments, expandedMoreById, expandedLowScoreById,
                          collapsedById, status, listEl, footer, pendingScrollAnchor,
                          keepCommentsListDuringNextLoad>>]_vars

\* C3: when the current load ends in a transport failure, the held tree and
\* the rendered list are kept if the load was started by "load more" and
\* emptied otherwise.
C3_FailedLoadMoreKeepsComments ==
    [][\A l \in Loads :
          (l = commentsLoadSeq /\ loads[l].pc = "fetch" /\ loads'[l].outcome = "failed") =>
              IF loads[l].viaLoadMore
              THEN UNCHANGED <<currentComments, listEl>>
              ELSE currentComments' = <<>> /\ listEl' = <<>>]_vars

\* C4: a load whose cache GET was answered with a hit issues no network fetch.
C4_HitMeansNoFetch ==
    \A l \in Loads :
        loads[l].gotHit => loads[l].pc \notin {"fetch", "json", "cacheSet", "cacheSetDone"}

\* C5: a load whose fetch was cancelled by a newer load makes no UI transition
\* when the fetch (or the read of its body) resolves: status, list, tree,
\* footer and controls stay as they are and the load does not count as failed.
C5_AbortedLoadSilent ==
    [][\A l \in Loads :
          (loads[l].pc \in {"fetch", "json"} /\ loads[l].signal \in abortedCtl /\ Resumes(l)) =>
              /\ UNCHANGED <<currentComments, listEl, status, footer, controlsDisabled,
                             expandedMoreById, expandedLowScoreById, collapsedById>>
              /\ loads'[l].outcome # "failed"]_vars

\* load 1 returned from its cancelled fetch while load 2, which cancelled it,
\* is still loading
C5_Witness ==
    /\ commentsLoadSeq = 2
    /\ loads[1].outcome = "aborted"
    /\ loads[2].pc \notin {"idle", "done"}
    /\ status = "loading"

(***************************************************************************)
(* Properties of the parser's count.                                       *)
(***************************************************************************)
\* C11: the loadedCount returned by parseCommentsListing equals the number
\* of comment nodes of the returned forest: every top-level comment and all
\* of its transitive replies.
C11_LoadedCountIsForestSize ==
    parseOut # <<>> =>
        parseOut[1].loadedCount = Cardinality(ForestNodes(parseOut[1].comments))

\* a chain of three comments, and a comment with a reply next to a second
\* top-level comment
C11_Witness ==
    /\ parseOut # <<>>
    /\ parseOut[1].loadedCount = 3
    /\ Len(parseOut[1].comments) \in {1, 2}
    /\ \E i \in 1..Len(parseOut[1].comments) : Len(parseOut[1].comments[i].replies) = 1

(***************************************************************************)
(* Properties of the comments cache.                                       *)
(***************************************************************************)
\* C12: for every cache state, key and value, a COMMENTS_CACHE_SET(key,
\* value) followed immediately by COMMENTS_CACHE_GET(key) returns {hit: true,
\* value}, unless the value exceeds the byte ceiling: then the SET returns
\* {ok: false, reason: 'too_large'} and the following GET returns {hit: false}.
C12_SetThenGet ==
    [][\A key \in ProbeKeys :
          (/\ cacheLog # <<>>
           /\ cacheLog[1].op = "SET"
           /\ cacheLog[1].key = key
           /\ CacheGetMessage(key))
          => LET set == cacheLog[1]
                 get == cacheLog'[1]
                 json == set.value[1].json
             IN IF Len(json) = 1 /\ json[1] > 8000000
                THEN /\ ~set.reply.ok /\ set.reply.reason = "too_large"
                     /\ ~get.reply.hit
                ELSE get.reply.hit /\ get.reply.value = set.value]_vars

\* C13: after any sequence of comments-cache GET and SET messages the cache
\* holds at most 10 entries.
C13_AtMostTenEntries == Len(commentsCache) <= 10

\* a SET of a key the full cache did not hold was stored, and the oldest key
\* was dropped for it
C13_Witness ==
    /\ cacheLog # <<>>
    /\ cacheLog[1].op = "SET" /\ cacheLog[1].reply.ok /\ ~cacheLog[1].held
    /\ Len(commentsCache) = 10
    /\ CacheIndex(commentsCache, CacheKeySeq[1]) = 0
    /\ CacheIndex(commentsCache, CacheKeySeq[2]) = 1

\* C14: a comments-cache GET never returns a value whose entry was stored
\* more than the time to live of 5 minutes ago: an expired entry is reported
\* as a miss and is removed by that read.
C14_NoExpiredValue ==
    (cacheLog # <<>> /\ cacheLog[1].op = "GET") =>
        LET get == cacheLog[1]
            age == now - storedAt[get.key][1]
        IN /\ get.reply.value # <<>> =>
                 /\ storedAt[get.key] # <<>>
                 /\ age <= 5 * 60 * 1000
           /\ (get.held /\ age > 5 * 60 * 1000) =>
                 /\ ~get.reply.hit /\ get.reply.value = <<>>
                 /\ CacheIndex(commentsCache, get.key) = 0

\* a key stored more than five minutes before is read: a miss, and the
\* entry is gone
C14_Witness ==
    /\ cacheLog # <<>>
    /\ cacheLog[1].op = "GET" /\ cacheLog[1].held
    /\ storedAt[cacheLog[1].key] # <<>>
    /\ now - storedAt[cacheLog[1].key][1] > 5 * 60 * 1000
    /\ ~cacheLog[1].reply.hit
    /\ CacheIndex(commentsCache, cacheLog[1].key) = 0

(***************************************************************************)
(* Properties of the limit.                                                *)
(***************************************************************************)
\* C15: coerceCommentsLimit always returns a member of {50, 100, 200, 300,
\* 400, 500}: for a finite number an allowed value at minimum absolute
\* distance from the request, the lower one on an exact tie; for a missing
\* or non-finite request 100.
C15_CoerceNearestLowerOnTie ==
    coerceOut # <<>> =>
        LET allowed == {50, 100, 200, 300, 400, 500}
            v == coerceIn[1]
            out == coerceOut[1]
            dist(a) == IF v[1] >= a THEN v[1] - a ELSE a - v[1]
        IN /\ out \in allowed
           /\ v = <<>> => out = 100
           /\ v # <<>> => \A a \in allowed :
                             \/ dist(out) < dist(a)
                             \/ dist(out) = dist(a) /\ out <= a

\* 150 is as far from 100 as from 200: 100 is returned
C15_Witness ==
    /\ coerceOut = <<100>>
    /\ coerceIn = << <<150>> >>

\* C16: activating "load more" when the current limit is L sets the limit to
\* the next larger allowed value (never above 500, never skipping a step: 500
\* stays 500) and starts exactly one new loadComments invocation, which does
\* not clear the already rendered list when it starts.
C16_LoadMoreAdvances ==
    [][LoadMoreClick =>
          LET allowed == {50, 100, 200, 300, 400, 500}
              L == getCommentsLimit(limitValue)
              larger == { a \in allowed : a > L }
              started == { l \in Loads : loads[l].pc = "idle" /\ loads'[l].pc # "idle" }
          IN /\ limitValue' \in allowed
             /\ IF larger = {} THEN limitValue' = 500
                ELSE limitValue' \in larger /\ \A a \in larger : limitValue' <= a
             /\ commentsLoadSeq' = commentsLoadSeq + 1
             /\ started = {commentsLoadSeq'}
             /\ loads'[commentsLoadSeq'].limit = limitValue'
             /\ loads'[commentsLoadSeq'].pc = "cacheGet"
             /\ listEl' = listEl
             /\ currentComments' = currentComments]_vars

\* "load more" was activated at limit 300: the limit is 400, the new load has
\* started and the list rendered before is still shown
C16_Witness ==
    /\ commentsLoadSeq > 1
    /\ loads[commentsLoadSeq].viaLoadMore
    /\ loads[commentsLoadSeq].pc = "cacheGet"
    /\ loads[commentsLoadSeq].limit = 400
    /\ limitValue = 400
    /\ status = "loading"
    /\ listEl # <<>>
    /\ footer.text = "Loading more"

\* C17: when a load committed with the limit at its maximum of 500 and the
\* server reported more comments, the footer shows the "see more on Reddit"
\* link and not "load more"; "load more" is enabled only while the limit is
\* below 500, and no fetch with a limit above 500 is ever started.
C17_MaxLimitShowsLink ==
    /\ \A l \in Loads : loads[l].limit <= 500
    /\ LET latest == loads[commentsLoadSeq]
       IN (commentsLoadSeq > 0 /\ latest.pc = "done" /\ latest.outcome \in {"cached", "parsed"})
          => /\ (latest.limit = 500 /\ latest.more)
                   => /\ footer.onclick = "openReddit"
                      /\ footer.text = "See more comments on Reddit"
                      /\ ~footer.isHidden /\ ~footer.disabled
             /\ (footer.onclick = "loadMore" /\ ~footer.disabled) => latest.limit < 500

(***************************************************************************)
(* Properties of the events of the page.                                   *)
(***************************************************************************)
\* C18: every change of the sort or limit setting starts a new loadComments
\* invocation, whatever state the comments section is in: shown or hidden,
\* loading or idle, tree empty or not.
C18_FetchConfigChangeLoads ==
    [][(hasPermalink /\ ((\E v \in LimitChoices : LimitChange(v))
                         \/ (\E v \in SortChoices : SortChange(v))))
       => /\ commentsLoadSeq' = commentsLoadSeq + 1
          /\ loads'[commentsLoadSeq'].pc = "cacheGet"
          /\ status' = "loading"]_vars

\* C19: no render-only event (a change of depth, hide-low or auto-depth, or
\* activating "show more replies", "show low-score replies" or the collapse
\* toggle) starts a load: each leaves the held comment tree, the sequence
\* counter and the set of in-flight fetches unchanged.
C19_ViewEventsStartNoLoad ==
    [][lastStep' = "view" =>
          /\ currentComments' = currentComments
          /\ commentsLoadSeq' = commentsLoadSeq
          /\ loads' = loads
          /\ commentsAbort' = commentsAbort /\ abortedCtl' = abortedCtl
          /\ status' = status]_vars

\* while the fetch of the "load more" load is under way, a reply was
\* collapsed, low-score replies were shown, and depth, auto-depth and
\* hide-low differ from what they were
C19_Witness ==
    /\ lastStep = "view"
    /\ loads[2].pc = "fetch"
    /\ commentsLoadSeq = 2
    /\ collapsedById # {}
    /\ expandedLowScoreById # {}
    /\ depthValue = 0 /\ ~autoDepthChecked /\ ~hideLowChecked
    /\ currentComments = ViewParsed.comments

\* C20: after a transport failure of the current load the status is the
\* error state with a Retry action; no load is started automatically from
\* that state, and activating Retry starts exactly one new loadComments
\* invocation with a fresh sequence number.
C20_FailureThenRetry ==
    [][/\ \A l \in Loads :
             (l = commentsLoadSeq /\ (FetchFails(l) \/ JsonRejects(l)))
             => status' = "error" /\ loads'[l].outcome = "failed"
       /\ (status = "error" /\ commentsLoadSeq' # commentsLoadSeq)
             => \/ RetryClick \/ ToggleSwitch \/ LoadMoreClick
                \/ \E v \in LimitChoices : LimitChange(v)
                \/ \E v \in SortChoices : SortChange(v)
       /\ RetryClick
             => /\ status = "error"
                /\ commentsLoadSeq' = commentsLoadSeq + 1
                /\ { l \in Loads : loads[l].pc = "idle" /\ loads'[l].pc # "idle" }
                      = {commentsLoadSeq'}
                /\ loads'[commentsLoadSeq'].pc = "cacheGet"
                /\ status' = "loading"]_vars

\* the fetch of the current load failed: the error status with Retry is
\* shown and Retry can be activated
C20_Witness ==
    /\ commentsLoadSeq = 1
    /\ loads[1].pc = "done" /\ loads[1].outcome = "failed"
    /\ status = "error"
    /\ ~sectionHidden
    /\ ENABLED RetryClick

(***************************************************************************)
(* Session token index (background): recordSessionToken over the entries   *)
(* kept in storage.session. An entry is [token, lastAccessed]; createdAt   *)
(* and url take no part in what is kept.                                   *)
(***************************************************************************)
\* now - entry.lastAccessed > TOKEN_TTL_MS
isExpired(entry, t) == t - entry.lastAccessed > TOKEN_TTL_MS

\* entries.filter(entry => !isExpired(entry, now))
ActiveEntries(entries, t) == SelectSeq(entries, LAMBDA e : ~isExpired(e, t))

\* active.find(entry => entry.token === token): the first match is updated,
\* with no match the new entry is pushed
TouchOrPush(active, token, t) ==
    LET hits == { i \in 1..Len(active) : active[i].token = token }
    IN IF hits = {} THEN Append(active, [token |-> token, lastAccessed |-> t])
       ELSE LET first == CHOOSE i \in hits : \A j \in hits : i <= j
            IN [active EXCEPT ![first].lastAccessed = t]

\* active.sort((a, b) => a.lastAccessed - b.lastAccessed): ascending, stable
RECURSIVE InsertByLastAccessed(_, _)
InsertByLastAccessed(sorted, e) ==
    IF Len(sorted) = 0 THEN <<e>>
    ELSE IF sorted[Len(sorted)].lastAccessed <= e.lastAccessed THEN Append(sorted, e)
    ELSE Append(InsertByLastAccessed(SubSeq(sorted, 1, Len(sorted) - 1), e), sorted[Len(sorted)])

SortByLastAccessed(entries) ==
    LET f[i \in 0..Len(entries)] ==
            IF i = 0 THEN <<>> ELSE InsertByLastAccessed(f[i - 1], entries[i])
    IN f[Len(entries)]

\* while (active.length > TOKEN_MAX_ENTRIES) active.shift()
ShiftedOff(sorted) ==
    IF Len(sorted) > TOKEN_MAX_ENTRIES
    THEN SubSeq(sorted, 1, Len(sorted) - TOKEN_MAX_ENTRIES) ELSE <<>>
ShiftToMax(sorted) ==
    IF Len(sorted) > TOKEN_MAX_ENTRIES
    THEN SubSeq(sorted, Len(sorted) - TOKEN_MAX_ENTRIES + 1, Len(sorted)) ELSE sorted

\* recordSessionToken between loadEntries() and persistEntries(): what is
\* persisted and what was shifted off for the cap
recordSessionToken(entries, token, t) ==
    LET sorted == SortByLastAccessed(TouchOrPush(ActiveEntries(entries, t), token, t))
    IN [active |-> ShiftToMax(sorted), evicted |-> ShiftedOff(sorted)]

TokensOf(entries) == { entries[i].token : i \in 1..Len(entries) }

(***************************************************************************)
(* SpecToken: recordSessionToken calls of the background over the token    *)
(* index. Each call reads the clock, awaits storage.session.get, then      *)
(* awaits storage.session.set and the removal of the payloads; the storage *)
(* serves the requests in the order they were made.                        *)
(***************************************************************************)
TokenCallIds == 1..MaxTokenCalls
TokenTickMs == TOKEN_TTL_MS \div 2

IdleTokenCall ==
    [pc |-> "idle", token |-> 0, now |-> 0, order |-> 0, active |-> <<>>, evicted |-> <<>>]

\* the index an earlier run of the background left: n entries, the oldest
\* first, each a second apart
FilledIndex(n) == [i \in 1..n |-> [token |-> 100 + i, lastAccessed |-> 0 - (n - i + 1) * 1000]]

\* crypto.randomUUID() of call c
NewToken(c) == c

InitToken ==
    /\ tokenIndex \in { FilledIndex(n) : n \in {0, TOKEN_MAX_ENTRIES - 1, TOKEN_MAX_ENTRIES} }
    /\ tokenCalls = [c \in TokenCallIds |-> IdleTokenCall]
    /\ IdleRender /\ IdleParse /\ IdleSelect /\ IdlePromote /\ IdleWalk /\ IdleLoad
    /\ IdleCoerce /\ IdleCache /\ IdleStep /\ IdleHost /\ IdlePend

tokenFrame == <<renderVars, parseVars, selectVars, promoteVars, walkVars, coerceVars, cacheVars,
                stepVars, hostVars, pendVars, hasPermalink, loadBudget, uiReady, toggleChecked, commentsLoadSeq,
                commentsAbort, abortedCtl, status, footer, limitValue, sortValue,
                controlsDisabled, pendingScrollAnchor, keepCommentsListDuringNextLoad, loads,
                commentsCache>>

\* call c starts: Date.now() is read and storage.session.get is requested
RecordStart(c, token) ==
    /\ tokenCalls[c].pc = "idle"
    /\ \A d \in TokenCallIds : d < c => tokenCalls[d].pc # "idle"
    /\ tokenCalls' = [tokenCalls EXCEPT ![c] = [IdleTokenCall EXCEPT
                          !.pc = "get", !.token = token, !.now = now,
                          !.order = 1 + Cardinality({ d \in TokenCallIds :
                                                        tokenCalls[d].pc # "idle" })]]
    /\ UNCHANGED <<tokenIndex, now, tokenFrame>>

\* the storage answers the get of call c; the call filters, updates, sorts,
\* shifts and requests storage.session.set with the result
RecordLoaded(c) ==
    /\ tokenCalls[c].pc = "get"
    /\ \A d \in TokenCallIds :
          tokenCalls[d].pc = "get" => tokenCalls[c].order <= tokenCalls[d].order
    /\ LET r == recordSessionToken(tokenIndex, tokenCalls[c].token, tokenCalls[c].now)
       IN tokenCalls' = [tokenCalls EXCEPT ![c].pc = "set", ![c].active = r.active,
                                           ![c].evicted = r.evicted]
    /\ UNCHANGED <<tokenIndex, now, tokenFrame>>

\* the storage carries out the set of call c
StorageSet(c) ==
    /\ tokenCalls[c].pc = "set"
    /\ \A d \in TokenCallIds :
          tokenCalls[d].pc \in {"get", "set"} => tokenCalls[c].order <= tokenCalls[d].order
    /\ tokenIndex' = tokenCalls[c].active
    /\ tokenCalls' = [tokenCalls EXCEPT ![c].pc = "stored"]
    /\ UNCHANGED <<now, tokenFrame>>

\* call c resumes after persistEntries, removes the payloads of the tokens
\* it dropped and returns
RecordReturn(c) ==
    /\ tokenCalls[c].pc = "stored"
    /\ tokenCalls' = [tokenCalls EXCEPT ![c].pc = "done"]
    /\ UNCHANGED <<tokenIndex, now, tokenFrame>>

\* time passes in the background
TokenTick ==
    /\ now < MaxTicks * TokenTickMs
    /\ now' = now + TokenTickMs
    /\ UNCHANGED <<tokenIndex, tokenCalls, tokenFrame>>

NextToken ==
    \/ \E c \in TokenCallIds : \E token \in {NewToken(c), 101} : RecordStart(c, token)
    \/ \E c \in TokenCallIds : RecordLoaded(c)
    \/ \E c \in TokenCallIds : StorageSet(c)
    \/ \E c \in TokenCallIds : RecordReturn(c)
    \/ TokenTick

SpecToken == InitToken /\ [][NextToken]_vars

(***************************************************************************)
(* SpecHost: start-up of the reader host page, init() and what it awaits.  *)
(* The fragment is [error, token, pending, trace, sourceUrl], each TRUE    *)
(* when the parameter is there (error: mode=error or an error parameter).  *)
(***************************************************************************)
HostHashes ==
    [error : BOOLEAN, token : BOOLEAN, pending : BOOLEAN, trace : BOOLEAN, sourceUrl : BOOLEAN]

InitHost ==
    /\ hostHash \in HostHashes
    /\ hostView = "blank"
    /\ hostSent = {}
    /\ hostPc = "start"
    /\ payloadStored \in BOOLEAN
    /\ payloadStored => hostHash.token
    /\ IdleRender /\ IdleParse /\ IdleSelect /\ IdlePromote /\ IdleWalk /\ IdleLoad
    /\ IdleCoerce /\ IdleCache /\ IdleStep /\ IdleToken /\ IdlePend

hostFrame == <<renderVars, loadVars, parseVars, selectVars, promoteVars, walkVars, coerceVars,
               cacheVars, stepVars, tokenVars, pendVars>>

\* init() up to its first await
HostInit ==
    /\ hostPc = "start"
    /\ IF hostHash.error
       THEN hostView' = "error_mode" /\ hostPc' = "done"
       ELSE IF ~hostHash.token
       THEN IF hostHash.pending /\ hostHash.trace
            THEN hostView' = "loading" /\ hostPc' = "waiting"
            ELSE hostView' = "no_token" /\ hostPc' = "done"
       ELSE hostView' = hostView /\ hostPc' = "sessionGet"
    /\ UNCHANGED <<hostHash, hostSent, payloadStored, hostFrame>>

\* initTokenProtocol(token) after storage.session.get(token)
InitTokenProtocol ==
    /\ hostPc = "sessionGet"
    /\ IF ~payloadStored
       THEN hostView' = "expired" /\ UNCHANGED hostSent
       ELSE /\ hostView' = "article"
            /\ hostSent' = hostSent \cup {"READER_CONTENT_READY"}
                                    \cup (IF hostHash.trace THEN {"PERF_REPORT"} ELSE {})
    /\ hostPc' = "done"
    /\ UNCHANGED <<hostHash, payloadStored, hostFrame>>

\* persistTokenInUrl(token, trace)
persistTokenInUrl(hash) ==
    [hash EXCEPT !.pending = FALSE, !.sourceUrl = FALSE, !.token = TRUE, !.trace = TRUE]

\* waitForPendingPayload: the token of the background arrives, through
\* storage or HOST_PAYLOAD_READY; the background stored the payload with it
PendingToken ==
    /\ hostPc = "waiting"
    /\ hostHash' = persistTokenInUrl(hostHash)
    /\ payloadStored' = TRUE
    /\ hostPc' = "sessionGet"
    /\ UNCHANGED <<hostView, hostSent, hostFrame>>

\* waitForPendingPayload: HOST_PAYLOAD_ERROR arrives
PendingError ==
    /\ hostPc = "waiting"
    /\ hostView' = "payload_error"
    /\ hostPc' = "done"
    /\ UNCHANGED <<hostHash, hostSent, payloadStored, hostFrame>>

\* waitForPendingPayload: the 12 s timer fires
PendingTimeout ==
    /\ hostPc = "waiting"
    /\ hostView' = "timeout"
    /\ hostPc' = "done"
    /\ UNCHANGED <<hostHash, hostSent, payloadStored, hostFrame>>

\* the payload leaves storage.session: the browser session ended, or the
\* background removed the token
PayloadDropped ==
    /\ payloadStored
    /\ payloadStored' = FALSE
    /\ UNCHANGED <<hostHash, hostView, hostSent, hostPc, hostFrame>>

\* the user reloads the page: the script starts again on the same fragment
HostReload ==
    /\ hostPc = "done"
    /\ hostPc' = "start"
    /\ hostView' = "blank"
    /\ hostSent' = {}
    /\ UNCHANGED <<hostHash, payloadStored, hostFrame>>

NextHost ==
    \/ HostInit
    \/ InitTokenProtocol
    \/ PendingToken
    \/ PendingError
    \/ PendingTimeout
    \/ PayloadDropped
    \/ HostReload

SpecHost == InitHost /\ [][NextHost]_vars

(***************************************************************************)
(* SpecPending: openReaderViewForUrl of the background and the pending     *)
(* host page it opens. pend.polls counts the tryStorage calls awaiting     *)
(* storage.session.get (get) and those whose get has answered with a token *)
(* and whose continuation has not run yet (token); pend.inits and          *)
(* pend.errors count the calls of initTokenProtocol and of renderErrorMode *)
(* made by waitForPendingPayload.                                          *)
(***************************************************************************)
\* the clock moves in thirds of the timeout
PendTickMs == PENDING_TIMEOUT_MS \div 3

InitPending ==
    /\ IdleRender /\ IdleParse /\ IdleSelect /\ IdlePromote /\ IdleWalk /\ IdleLoad
    /\ IdleCoerce /\ IdleCache /\ IdleStep /\ IdleToken /\ IdleHost /\ IdlePend

pendFrame == <<renderVars, loadVars, parseVars, selectVars, promoteVars, walkVars, coerceVars,
               cacheVars, stepVars, tokenVars>>

\* openHostPagePending(traceId, url): the tab of the host page is created
BgOpenPending ==
    /\ pend.bgPc = "idle"
    /\ pend' = [pend EXCEPT !.bgPc = "extract"]
    /\ hostHash' = [error |-> FALSE, token |-> FALSE, pending |-> TRUE, trace |-> TRUE,
                    sourceUrl |-> TRUE]
    /\ hostPc' = "start"
    /\ hostView' = "blank"
    /\ UNCHANGED <<hostSent, payloadStored, pendFrame>>

\* extractPayloadWithFallback resolves with a payload
BgExtract ==
    /\ pend.bgPc = "extract"
    /\ pend' = [pend EXCEPT !.bgPc = "set"]
    /\ UNCHANGED <<hostVars, pendFrame>>

\* the extraction, storage.session.set or recordSessionToken rejects: the
\* catch block is entered
BgFails ==
    /\ pend.bgPc \in {"extract", "set", "record"}
    /\ pend' = [pend EXCEPT !.bgPc = "fail"]
    /\ UNCHANGED <<hostVars, pendFrame>>

\* a set that writes the pending_token key alone
StoredBySetOfKeyOnly(stored) == stored

\* the payload is in session storage after the set, which writes it under
\* the token together with the pending_token key
StoredBySet(stored) == TRUE

\* storage.session.set({ [token]: payload, [pendingKey]: token })
BgSet ==
    /\ pend.bgPc = "set"
    /\ payloadStored' = StoredBySet(payloadStored)
    /\ pend' = [pend EXCEPT !.bgPc = "record", !.pendingKey = TRUE]
    /\ UNCHANGED <<hostHash, hostView, hostSent, hostPc, pendFrame>>

\* recordSessionToken(token, url) resolves
BgRecord ==
    /\ pend.bgPc = "record"
    /\ pend' = [pend EXCEPT !.bgPc = "send"]
    /\ UNCHANGED <<hostVars, pendFrame>>

\* sendMessage(HOST_PAYLOAD_READY); with no listener the call rejects and the
\* rejection is ignored
BgSendReady ==
    /\ pend.bgPc = "send"
    /\ pend' = [pend EXCEPT !.bgPc = "done",
                            !.msgs = IF pend.listening THEN @ \cup {"READY"} ELSE @]
    /\ UNCHANGED <<hostVars, pendFrame>>

\* the catch block: sendMessage(HOST_PAYLOAD_ERROR)
BgSendError ==
    /\ pend.bgPc = "fail"
    /\ pend' = [pend EXCEPT !.bgPc = "done",
                            !.msgs = IF pend.listening THEN @ \cup {"ERROR"} ELSE @]
    /\ UNCHANGED <<hostVars, pendFrame>>

\* waitForPendingPayload up to its return: the timer, the interval, the
\* first tryStorage() and the message listener
WaitForPendingPayload ==
    /\ hostPc = "waiting"
    /\ pend.timer = "none"
    /\ pend' = [pend EXCEPT !.timer = "armed", !.interval = TRUE, !.listening = TRUE,
                            !.polls = [get |-> 1, token |-> 0]]
    /\ UNCHANGED <<hostVars, pendFrame>>

\* the interval fires: void tryStorage()
PollTick ==
    /\ pend.interval
    /\ pend.polls.get + pend.polls.token < MaxPolls
    /\ pend' = [pend EXCEPT !.polls.get = @ + 1]
    /\ UNCHANGED <<hostVars, pendFrame>>

\* storage.session.get(pendingKey) of one tryStorage answers; without a
\* token the call returns
PollRead ==
    /\ pend.polls.get > 0
    /\ pend' = [pend EXCEPT !.polls.get = @ - 1,
                            !.polls.token = IF pend.pendingKey THEN @ + 1 ELSE @]
    /\ UNCHANGED <<hostVars, pendFrame>>

\* a tryStorage that does not look at resolved after its await
PollSeesResolvedNever(p) == FALSE

\* if (resolved) return; after the await of tryStorage
PollSeesResolved(p) == p.resolved

\* the wait ends with a token: the locals and the fragment it leaves
ResolvedWithToken(p) ==
    [p EXCEPT !.resolved = TRUE, !.timer = IF @ = "armed" THEN "cleared" ELSE @,
              !.interval = FALSE, !.pendingKey = FALSE, !.inits = @ + 1]

\* the continuation of a tryStorage that read a token
PollResume ==
    /\ pend.polls.token > 0
    /\ IF PollSeesResolved(pend)
       THEN /\ pend' = [pend EXCEPT !.polls.token = @ - 1]
            /\ UNCHANGED hostVars
       ELSE /\ pend' = [ResolvedWithToken(pend) EXCEPT !.polls.token = @ - 1]
            /\ hostHash' = persistTokenInUrl(hostHash)
            /\ hostPc' = "sessionGet"
            /\ UNCHANGED <<hostView, hostSent, payloadStored>>
    /\ UNCHANGED pendFrame

\* onMsg is called with HOST_PAYLOAD_READY of this trace
OnPayloadReady ==
    /\ "READY" \in pend.msgs
    /\ IF ~pend.listening \/ pend.resolved
       THEN /\ pend' = [pend EXCEPT !.msgs = @ \ {"READY"}]
            /\ UNCHANGED hostVars
       ELSE /\ pend' = [ResolvedWithToken(pend) EXCEPT !.msgs = @ \ {"READY"},
                                                       !.listening = FALSE]
            /\ hostHash' = persistTokenInUrl(hostHash)
            /\ hostPc' = "sessionGet"
            /\ UNCHANGED <<hostView, hostSent, payloadStored>>
    /\ UNCHANGED pendFrame

\* onMsg is called with HOST_PAYLOAD_ERROR of this trace
OnPayloadError ==
    /\ "ERROR" \in pend.msgs
    /\ IF ~pend.listening \/ pend.resolved
       THEN /\ pend' = [pend EXCEPT !.msgs = @ \ {"ERROR"}]
            /\ UNCHANGED hostVars
       ELSE /\ pend' = [pend EXCEPT !.msgs = @ \ {"ERROR"}, !.resolved = TRUE,
                                    !.timer = "cleared", !.interval = FALSE,
                                    !.listening = FALSE, !.errors = @ + 1]
            /\ hostView' = "payload_error"
            /\ hostPc' = "done"
            /\ UNCHANGED <<hostHash, hostSent, payloadStored>>
    /\ UNCHANGED pendFrame

\* the callback of setTimeout(..., 12000) runs
OnTimeout ==
    /\ pend.timer = "armed"
    /\ pend.elapsed >= PENDING_TIMEOUT_MS
    /\ IF pend.resolved
       THEN /\ pend' = [pend EXCEPT !.timer = "fired"]
            /\ UNCHANGED hostVars
       ELSE /\ pend' = [pend EXCEPT !.timer = "fired", !.resolved = TRUE, !.errors = @ + 1]
            /\ hostView' = "timeout"
            /\ hostPc' = "done"
            /\ UNCHANGED <<hostHash, hostSent, payloadStored>>
    /\ UNCHANGED pendFrame

\* time passes on the host page; an armed timer fires when it is due
PendTick ==
    /\ pend.timer # "none"
    /\ pend.elapsed <= PENDING_TIMEOUT_MS
    /\ pend.timer = "armed" => pend.elapsed < PENDING_TIMEOUT_MS
    /\ pend' = [pend EXCEPT !.elapsed = @ + PendTickMs]
    /\ UNCHANGED <<hostVars, pendFrame>>

NextPending ==
    \/ BgOpenPending
    \/ BgExtract
    \/ BgFails
    \/ BgSet
    \/ BgRecord
    \/ BgSendReady
    \/ BgSendError
    \/ HostInit
    \/ WaitForPendingPayload
    \/ PollTick
    \/ PollRead
    \/ PollResume
    \/ OnPayloadReady
    \/ OnPayloadError
    \/ OnTimeout
    \/ PendTick
    \/ InitTokenProtocol

SpecPending == InitPending /\ [][NextPending]_vars

(***************************************************************************)
(* Properties of the cache write of a load.                                *)
(***************************************************************************)
\* C21: once the current load has fetched and parsed, the status is success
\* and the held tree is the parsed one while the cache SET is awaited, and
\* when the load resumes the parsed comments are rendered and the status is
\* still success, whatever the SET came to: accepted, rejected with a reason,
\* no response, or a failure to send. The load never ends as a failure.
C21_SetOutcomeNeverBlocks ==
    [][\A l \in Loads :
          /\ (l = commentsLoadSeq /\ loads[l].pc \in {"cacheSet", "cacheSetDone"})
                => /\ status = "success"
                   /\ currentComments = loads[l].parsed[1].comments
          /\ (l = commentsLoadSeq /\ loads[l].pc = "cacheSet" /\ loads'[l].pc # "cacheSet")
                => /\ loads'[l].pc = "cacheSetDone"
                   /\ loads'[l].setRes \in {"ok", "rejected", "no_response", "send_failed"}
                   /\ status' = "success"
          /\ (l = commentsLoadSeq /\ loads[l].pc = "cacheSetDone" /\ loads'[l].pc # "cacheSetDone")
                => /\ loads'[l].pc = "done" /\ loads'[l].outcome = "parsed"
                   /\ status' = "success"
                   /\ currentComments' = loads[l].parsed[1].comments
                   /\ listEl' = rerenderComments(loads[l].parsed[1].comments, depthValue,
                                                 autoDepthChecked, hideLowChecked,
                                                 UiSets(expandedMoreById, expandedLowScoreById,
                                                        collapsedById))]_vars

\* the first load has returned after a SET that stored nothing (turned away,
\* unanswered or not sent): the comments are rendered and the status is
\* success
C21_Witness ==
    /\ commentsLoadSeq = 1
    /\ loads[1].pc = "done" /\ loads[1].outcome = "parsed"
    /\ commentsCache = <<>>
    /\ status = "success"
    /\ listEl # <<>>
    /\ currentComments # <<>>

(***************************************************************************)
(* Properties of the session token index.                                  *)
(***************************************************************************)
\* C22: what a recordSessionToken call persists holds at most 15 entries,
\* none older than the 30-minute TTL at the call's clock reading, and every
\* entry shifted off for the cap was accessed no later than every entry
\* kept; when the call returns, the persisted index holds at most 15
\* entries, none older than the TTL, and the token the call recorded.
C22_IndexAfterRecord ==
    [][\A c \in TokenCallIds :
          /\ (tokenCalls[c].pc = "get" /\ tokenCalls'[c].pc = "set")
                => LET kept == tokenCalls'[c].active
                       gone == tokenCalls'[c].evicted
                   IN /\ Len(kept) <= 15
                      /\ \A i \in 1..Len(kept) :
                            tokenCalls[c].now - kept[i].lastAccessed <= 30 * 60 * 1000
                      /\ \A i \in 1..Len(gone), j \in 1..Len(kept) :
                            gone[i].lastAccessed <= kept[j].lastAccessed
                      /\ tokenCalls[c].token \in TokensOf(kept)
          /\ (tokenCalls[c].pc = "stored" /\ tokenCalls'[c].pc = "done")
                => /\ Len(tokenIndex') <= 15
                   /\ \A i \in 1..Len(tokenIndex') :
                         tokenCalls[c].now - tokenIndex'[i].lastAccessed <= 30 * 60 * 1000
                   /\ tokenCalls[c].token \in TokensOf(tokenIndex')]_vars

(***************************************************************************)
(* Properties of the start-up of the host page.                            *)
(***************************************************************************)
\* C23: when the host page finds no payload in session storage under the
\* token of its fragment and the fragment names a sourceUrl, it sends
\* HOST_PAYLOAD_REQUEST for that URL and waits in the pending state
\* (pending=1 in the fragment); it does not end in the expired-data error.
C23_MissingPayloadAsksAgain ==
    [][(hostPc = "sessionGet" /\ hostPc' # "sessionGet"
          /\ ~payloadStored /\ hostHash.sourceUrl)
       => /\ "HOST_PAYLOAD_REQUEST" \in hostSent'
          /\ hostHash'.pending
          /\ hostPc' = "waiting"
          /\ hostView' # "expired"]_vars

(***************************************************************************)
(* Properties of the per-node sets.                                        *)
(***************************************************************************)
\* C24: the three per-node sets (expanded-more, expanded-low-score,
\* collapsed) are emptied by every step in which a load commits its result,
\* from the network or from a cache hit; any other step that changes them is
\* the user's action on one rendered comment, which changes one id of one
\* set and nothing of the loads or the display settings. A change of a
\* display setting, a failed load and a stale load leave them as they were.
C24_SetsClearedOnCommitOnly ==
    [][LET commits(l) ==
               \/ loads[l].pc = "json" /\ loads'[l].pc = "cacheSet"
               \/ loads[l].pc = "cacheGot" /\ loads'[l].pc = "done"
                                           /\ loads'[l].outcome = "cached"
           ends(l) == loads[l].pc \notin {"idle", "done"} /\ loads'[l].pc = "done"
           diff(a, b) == (a \ b) \cup (b \ a)
           changed == diff(expandedMoreById, expandedMoreById')
                      \cup diff(expandedLowScoreById, expandedLowScoreById')
                      \cup diff(collapsedById, collapsedById')
           same == /\ expandedMoreById' = expandedMoreById
                   /\ expandedLowScoreById' = expandedLowScoreById
                   /\ collapsedById' = collapsedById
       IN /\ (\E l \in Loads : commits(l))
                => (expandedMoreById' = {} /\ expandedLowScoreById' = {} /\ collapsedById' = {})
          /\ (~(\E l \in Loads : commits(l)) /\ ~same)
                => /\ loads' = loads /\ commentsLoadSeq' = commentsLoadSeq
                   /\ <<depthValue, autoDepthChecked, hideLowChecked>>'
                         = <<depthValue, autoDepthChecked, hideLowChecked>>
                   /\ Cardinality(changed) = 1
                   /\ changed \subseteq IdsIn(listEl)
                   /\ Cardinality({ i \in 1..3 :
                          <<expandedMoreById, expandedLowScoreById, collapsedById>>[i]
                          # <<expandedMoreById, expandedLowScoreById, collapsedById>>'[i] }) = 1
          /\ (<<depthValue, autoDepthChecked, hideLowChecked>>'
                 # <<depthValue, autoDepthChecked, hideLowChecked>>) => same
          /\ \A l \in Loads :
                (ends(l) /\ loads'[l].outcome \in {"failed", "stale", "aborted"}) => same
          /\ \A l \in Loads :
                (ends(l) /\ l # commentsLoadSeq) => same]_vars

\* the load of the start has returned after another one superseded it, that
\* one has failed, and the sets left over from the
\* list that is gone are still there
C24_Witness ==
    /\ commentsLoadSeq = 2
    /\ loads[1].pc = "done" /\ loads[1].outcome \in {"stale", "aborted", "parsed"}
    /\ loads[1].late
    /\ loads[2].pc = "done" /\ loads[2].outcome = "failed"
    /\ expandedMoreById = {1} /\ expandedLowScoreById = {1} /\ collapsedById = {1}
    /\ ~hideLowChecked

(***************************************************************************)
(* More properties of the pure functions.                                  *)
(***************************************************************************)
\* C25: selectVisibleChildren puts each child in exactly one of visible,
\* hidden for low score and hidden for depth: the three counts add up to the
\* number of children, and visible holds children of the call in the order
\* the call was given them.
C25_ChildrenPartitioned ==
    selectOut # <<>> =>
        LET kids == selectIn[1].parent.replies
            out == selectOut[1]
        IN /\ Len(out.visible) + out.hiddenLowScoreCount + out.hiddenDepthCount = Len(kids)
           /\ out.hiddenLowScoreCount >= 0 /\ out.hiddenDepthCount >= 0
           /\ out.visible = SelectSeq(kids, LAMBDA c : c.id \in IdsIn(out.visible))

\* two replies, both visible, in the order they were given
C25_Witness ==
    /\ selectOut # <<>>
    /\ Len(selectIn[1].parent.replies) = 2
    /\ selectOut[1].visible = selectIn[1].parent.replies
    /\ selectOut[1].hiddenLowScoreCount = 0
    /\ selectOut[1].hiddenDepthCount = 0
    /\ selectIn[1].hideLow

\* ---------------------------------------------------------------------------
\* the visit records of every tree of the loaded comments
ForestRecs(comments) ==
    LET f[i \in 0..Len(comments)] ==
            IF i = 0 THEN <<>> ELSE f[i - 1] \o visit(comments[i], NoId, 0)
    IN f[Len(comments)]

\* the wrappers of the last render pass that lie in the subtree of n (n included)
WrappersUnder(n, recs) ==
    SelectSeq(listEl, LAMBDA w : n \in PathToRoot(w.id, recs))

\* d was dropped by the low-score rule somewhere strictly below n
LowHiddenBelow(n, d, recs) ==
    \E x \in PathToRoot(d, recs) \ PathToRoot(n, recs) :
        /\ hideLowChecked
        /\ MapGet(recs, x).score <= LOW_SCORE
        /\ MapGet(recs, x).parent \notin expandedLowScoreById

\* d lies below a collapsed comment of the subtree of n (n included)
CollapsedAbove(n, d, recs) ==
    \E a \in ((PathToRoot(d, recs) \ PathToRoot(n, recs)) \ {d}) \cup {n} :
        a \in collapsedById

\* C26: once a rendered comment n is in the expanded-more set, the last render
\* pass shows no "show more replies" control anywhere in the subtree of n, and
\* every descendant of n that is missing from the render is missing because of
\* the low-score rule or because one of its ancestors is collapsed: none is
\* hidden for depth.
C26_ExpandedSubtreeUnlimited ==
    LET recs == ForestRecs(currentComments)
    IN \A n \in expandedMoreById \cap IdsIn(listEl) :
          /\ \A i \in 1..Len(WrappersUnder(n, recs)) : WrappersUnder(n, recs)[i].showMore = 0
          /\ \A d \in IdsIn(recs) :
                (n \in PathToRoot(d, recs) /\ d # n)
                   => \/ d \in IdsIn(listEl)
                      \/ LowHiddenBelow(n, d, recs)
                      \/ CollapsedAbove(n, d, recs)

\* an expanded comment at the depth limit whose replies two levels down are shown
C26_Witness ==
    LET recs == ForestRecs(currentComments)
    IN \E n \in expandedMoreById \cap IdsIn(listEl) :
          /\ ~autoDepthChecked
          /\ collapsedById = {}
          /\ \E d \in IdsIn(listEl) :
                /\ n \in PathToRoot(d, recs)
                /\ MapGet(recs, d).depth >= MapGet(recs, n).depth + 2
                /\ MapGet(recs, d).depth > getCommentsDepth(depthValue)

\* ---------------------------------------------------------------------------
\* the best score among the nodes deeper than the depth limit (0 at least)
BestDeepScore(deep) ==
    IF deep = {} THEN 0
    ELSE LET top == CHOOSE x \in deep : \A y \in deep : y.score <= x.score
         IN IF top.score > 0 THEN top.score ELSE 0

\* C27: the set computePromotedPathIds returns holds, with each id, the id of
\* every ancestor up to the root, and each id in it is the id of a node deeper
\* than depthLimit whose score is at least max(5, a quarter of the best score
\* among the nodes deeper than depthLimit), or of an ancestor of such a node.
C27_PromotedPathsClosed ==
    promoteOut # <<>> =>
        LET in == promoteIn[1]
            nodes == NodesBelow(in.root, 0, {})
            deep == { x \in nodes : x.depth > in.depthLimit }
            best == BestDeepScore(deep)
            chosen == { x \in deep : /\ x.id \in promoteOut[1]
                                     /\ x.score >= 5
                                     /\ 4 * x.score >= best }
        IN /\ \A x \in nodes : x.id \in promoteOut[1] => x.path \subseteq promoteOut[1]
           /\ \A id \in promoteOut[1] : \E x \in chosen : id \in x.path

\* a promoted path of three ids beside a reply of score 5 that the quarter of
\* the best score keeps out
C27_Witness ==
    /\ promoteOut # <<>>
    /\ LET in == promoteIn[1]
           deep == { x \in NodesBelow(in.root, 0, {}) : x.depth > in.depthLimit }
       IN /\ \E x \in deep : x.id \in promoteOut[1] /\ Cardinality(x.path) >= 3
          /\ \E y \in deep : y.score = 5 /\ y.id \notin promoteOut[1]

\* ---------------------------------------------------------------------------
\* the number of reply levels below a parsed comment
RECURSIVE TreeDepth(_)
TreeDepth(node) ==
    LET f[i \in 0..Len(node.replies)] ==
            IF i = 0 THEN 0 ELSE Max2(f[i - 1], 1 + TreeDepth(node.replies[i]))
    IN f[Len(node.replies)]

\* the number of levels of comment entries below a raw comment entry
RECURSIVE RawDepth(_)
RawDepth(entry) ==
    LET kids == entry.data[1].replies
        f[i \in 0..Len(kids)] ==
            IF i = 0 THEN 0
            ELSE IF kids[i].kind = "t1" THEN Max2(f[i - 1], 1 + RawDepth(kids[i]))
            ELSE f[i - 1]
    IN f[Len(kids)]

\* C28: no comment of a tree returned by parseCommentsListing lies more than
\* 10 reply levels below its top-level comment, however deep the input is
\* nested: a thread of at most 10 levels comes back whole, a deeper one cut
\* off below level 10, and a result is returned in either case.
C28_ParsedDepthBounded ==
    parseOut # <<>> =>
        LET raw == parseIn[1].children
            out == parseOut[1].comments
        IN /\ Len(out) = Len(raw)
           /\ \A i \in 1..Len(out) :
                 /\ TreeDepth(out[i]) <= 10
                 /\ TreeDepth(out[i]) = Min2(RawDepth(raw[i]), 10)

\* a thread nested deeper than 10 levels has been parsed
C28_Witness ==
    /\ parseOut # <<>>
    /\ Len(parseOut[1].comments) = 1
    /\ RawDepth(parseIn[1].children[1]) > 10
    /\ TreeDepth(parseOut[1].comments[1]) = 10

\* ---------------------------------------------------------------------------
\* C29: parseCommentsListing returns hasMore = TRUE whenever the listing holds
\* a placeholder ("more") entry at any nesting level, the replies of a comment
\* included.
C29_PlaceholderAnywhereCounts ==
    (parseOut # <<>> /\ parseIn[1].isArray) =>
        ((\E e \in RawEntries(parseIn[1].children) : e.kind = "more")
            => parseOut[1].hasMore)

\* ---------------------------------------------------------------------------
\* the last message was an access of its key: a GET that hit or a SET that
\* stored
LastWasAccess ==
    /\ cacheLog # <<>>
    /\ \/ cacheLog[1].op = "GET" /\ cacheLog[1].reply.hit
       \/ cacheLog[1].op = "SET" /\ cacheLog[1].reply.ok

\* C30: a comments-cache SET that pushes the entry count over the cap evicts
\* the least recently accessed entry, a GET that hit and a SET that stored
\* (over a key already held, too) both counting as an access: the key accessed
\* by the message before is not the one evicted while other entries are held,
\* and the key just written is held after the SET.
C30_EvictsLeastRecentlyAccessed ==
    [][ /\ (cacheLog' # <<>> /\ cacheLog'[1].op = "SET" /\ cacheLog'[1].reply.ok)
            => CacheIndex(commentsCache', cacheLog'[1].key) # 0
        /\ (LastWasAccess /\ cacheLog' # <<>> /\ Len(commentsCache) > 1)
            => CacheIndex(commentsCache', cacheLog[1].key) # 0 ]_vars

(***************************************************************************)
(* More properties of the loads, the host page and the background.         *)
(***************************************************************************)
\* the loads whose comments fetch is in flight under a signal not aborted
LiveFetches ==
    { l \in LoadSlots : loads[l].pc \in {"fetch", "json"} /\ loads[l].signal \notin abortedCtl }

\* C31: at every instant at most one comments fetch that has not been aborted
\* is in flight, and it is the fetch of the load with the current sequence
\* number: a superseded load has no live network request.
C31_OneLiveFetch ==
    /\ Cardinality(LiveFetches) <= 1
    /\ \A l \in LiveFetches : l = commentsLoadSeq

\* C32: a comments-cache SET that is turned away (too_large, not_serializable
\* or bad_key) leaves the cache as it was: the same entries under the same
\* keys, in the same order, with the same values and expiry times.
C32_RejectedSetLeavesCache ==
    [][(cacheLog' # <<>> /\ cacheLog'[1].op = "SET" /\ ~cacheLog'[1].reply.ok)
          => commentsCache' = commentsCache]_vars

\* a too-large value was turned away for a key the full cache holds
C32_Witness ==
    /\ cacheLog # <<>>
    /\ cacheLog[1].op = "SET"
    /\ cacheLog[1].reply.reason = "too_large"
    /\ cacheLog[1].held
    /\ Len(commentsCache) = COMMENTS_CACHE_MAX

\* the comments section has come to rest: the status is success or error,
\* the limit and sort controls are enabled, the footer is not the disabled
\* "Loading more" button
LoadSettled ==
    /\ status \in {"success", "error"}
    /\ ~controlsDisabled
    /\ footer.text # "Loading more"

\* C33: when every cache message and every network request is answered in
\* the end, a loading status is always followed by a state with status
\* success or error, the limit and sort controls enabled and the footer out
\* of its loading state, whatever loads were superseded on the way; and once
\* no load is under way the section stays like that.
C33_LoadingEnds ==
    /\ (status = "loading") ~> LoadSettled
    /\ []((commentsLoadSeq > 0 /\ \A l \in LoadSlots : loads[l].pc \in {"idle", "done"})
             => LoadSettled)

\* a load was superseded, the load after it has returned, the superseded one
\* returned last, and nothing is under way
C33_Witness ==
    /\ commentsLoadSeq = 2
    /\ loads[1].pc = "done" /\ loads[2].pc = "done"
    /\ loads[1].late
    /\ LoadSettled

\* C34: the footer is the outbound "See more comments on Reddit" link only
\* when the status is success and the load committed last reported more
\* comments at limit 500; it is never the link while the status is error.
C34_RedditLinkOnlyAfterSuccess ==
    footer.onclick = "openReddit" =>
        /\ status = "success"
        /\ loads[commentsLoadSeq].pc = "done"
        /\ loads[commentsLoadSeq].more
        /\ loads[commentsLoadSeq].limit = 500

\* load l returns in this step
Returns(l) == loads[l].pc \notin {"idle", "done"} /\ loads'[l].pc = "done"

\* C35: a scroll anchor captured by a "load more" activation is consumed only
\* by the load that activation started, and is discarded when that load fails
\* or returns superseded, so that no later load finds it.
C35_AnchorOnlyForItsLoad ==
    [][ /\ \A l \in LoadSlots :
              (Returns(l) /\ pendingScrollAnchor # <<>> /\ pendingScrollAnchor' = <<>>)
                 => loads[l].viaLoadMore
        /\ \A l \in LoadSlots :
              (Returns(l) /\ loads[l].viaLoadMore
                 /\ loads'[l].outcome \in {"failed", "stale", "aborted"})
                 => pendingScrollAnchor' = <<>> ]_vars

\* the ids of the render walk of one top-level comment with auto-depth on
AutoWalkIds(root, depthLimit, promoted, hideLow, sets) ==
    IdsIn(renderCommentTree(root,
                            [depthLimit |-> depthLimit, autoDepth |-> TRUE, hideLow |-> hideLow,
                             promotedPathIds |-> promoted],
                            0, FALSE, sets))

\* C36: with auto-depth on, the promoted set being computed anew from the
\* depth limit in every render, a higher depth limit on the same tree, with
\* the same hide-low flag and per-node sets, never renders fewer comments:
\* every comment rendered with the lower limit is rendered with the higher.
C36_AutoDepthMonotone ==
    promoteOut # <<>> =>
        LET in == promoteIn[1]
        IN \A h \in BOOLEAN : \A m \in { {}, {2} } : \A c \in { {}, {2} } :
           \A d2 \in (in.depthLimit + 1)..(MaxDepthSetting + 2) :
              AutoWalkIds(in.root, in.depthLimit, promoteOut[1], h, UiSets(m, {}, c))
                 \subseteq AutoWalkIds(in.root, d2,
                                       computePromotedPathIds(in.root, d2, ScoreOf(in.root)),
                                       h, UiSets(m, {}, c))

\* a comment shown by promotion alone lies beyond the next limit as well,
\* beside a candidate of the lower limit that the higher limit takes in
C36_Witness ==
    /\ promoteOut # <<>>
    /\ LET in == promoteIn[1]
           nodes == NodesBelow(in.root, 0, {})
       IN /\ \E x \in nodes : x.id \in promoteOut[1] /\ x.depth > in.depthLimit + 1
          /\ \E y \in nodes : y.depth = in.depthLimit + 1 /\ y.score = 24

DroppedByACall(c) ==
    \E d \in TokenCallIds :
        /\ tokenCalls[d].pc \in {"set", "stored", "done"}
        /\ \/ tokenCalls[c].token \in TokensOf(tokenCalls[d].evicted)
           \/ tokenCalls[d].now - tokenCalls[c].now > TOKEN_TTL_MS

\* C39: when recordSessionToken calls overlap, each reading the index before
\* the other has persisted, no recorded token is lost: once all calls have
\* returned, every token a call recorded that no call dropped as expired or
\* evicted has an entry in the persisted index.
C39_OverlapKeepsTokens ==
    (\A c \in TokenCallIds : tokenCalls[c].pc \in {"idle", "done"})
        => \A c \in TokenCallIds :
              (tokenCalls[c].pc = "done" /\ ~DroppedByACall(c))
                  => tokenCalls[c].token \in TokensOf(tokenIndex)

\* C40: the per-node "expand more" action is reversible: for a comment whose
\* hidden replies have been expanded, one of the user's actions on the
\* rendered comments, none of which starts a load, takes its id out of
\* expandedMoreById (and so hides its replies beyond the depth limit again).
C40_ExpandMoreReversible ==
    \A id \in expandedMoreById : ENABLED (NextRender /\ id \notin expandedMoreById')

=============================================================================
